---- MODULE Spec2Model ----
(***************************************************************************)
(* A model of the CTF encoder / decoder pair of packages/ctf-core.          *)
(*                                                                         *)
(* Text is a sequence of one-character strings; a line list is a sequence   *)
(* of texts.  A JSON value is a record tagged by t:                         *)
(*   [t |-> "null"]             [t |-> "bool", v |-> BOOLEAN]               *)
(*   [t |-> "num", v |-> Int]   [t |-> "str",  v |-> text]                  *)
(*   [t |-> "arr", v |-> sequence of values]                                *)
(*   [t |-> "obj", v |-> sequence of [k |-> text, v |-> value]]             *)
(* An object keeps its properties in insertion order, as a JS object does   *)
(* for keys that are not integer-like.  A thrown error is the record        *)
(*   [t |-> "error", kind |-> "parse" | "validation", line |-> Nat]         *)
(* (line 0: the error carries no line).  Numbers are integers: fractional,  *)
(* exponent, hexadecimal and Infinity literals are outside the alphabet of  *)
(* the modelled inputs.                                                     *)
(***************************************************************************)
EXTENDS Integers, Sequences, FiniteSets, TLC

VARIABLES pc, mode, value, options, doc, dopts, text, decoded, instance, calls,
          frequency, chosen, context, stack, turn

vars ==
  <<pc, mode, value, options, doc, dopts, text, decoded, instance, calls, frequency, chosen,
    context, stack, turn>>

(***************************************************************************)
(* Text primitives (the JS String methods the code uses).                   *)
(***************************************************************************)
DigitSeq == <<"0", "1", "2", "3", "4", "5", "6", "7", "8", "9">>

Digits == {DigitSeq[i] : i \in 1..10}

DigitVal(c) == (CHOOSE i \in 1..10 : DigitSeq[i] = c) - 1

WhiteSpace == {" ", "\t", "\r", "\n"}

MinOf(S) == CHOOSE i \in S : \A j \in S : i <= j

MaxOf(S) == CHOOSE i \in S : \A j \in S : i >= j

\* s.substring(a-1, b) with 1-based inclusive bounds.
SubStr(s, a, b) == IF a > b THEN <<>> ELSE SubSeq(s, a, b)

\* s.indexOf(c) + 1 for a single character c; 0 when absent.
IndexOfChar(s, c) ==
  IF \E i \in 1..Len(s) : s[i] = c
  THEN MinOf({i \in 1..Len(s) : s[i] = c})
  ELSE 0

startsWith(s, c) == Len(s) >= 1 /\ s[1] = c

endsWith(s, c) == Len(s) >= 1 /\ s[Len(s)] = c

\* s.includes(p) for a two-character pattern.
includesPair(s, a, b) == \E i \in 1..(Len(s) - 1) : s[i] = a /\ s[i + 1] = b

trimStart(s) ==
  IF \A i \in 1..Len(s) : s[i] \in WhiteSpace THEN <<>>
  ELSE SubStr(s, MinOf({i \in 1..Len(s) : s[i] \notin WhiteSpace}), Len(s))

trimEnd(s) ==
  IF \A i \in 1..Len(s) : s[i] \in WhiteSpace THEN <<>>
  ELSE SubStr(s, 1, MaxOf({i \in 1..Len(s) : s[i] \notin WhiteSpace}))

trim(s) == trimEnd(trimStart(s))

RECURSIVE ConcatRange(_, _, _)
ConcatRange(ss, lo, hi) ==
  IF lo > hi THEN <<>>
  ELSE IF lo = hi THEN ss[lo]
  ELSE LET mid == (lo + hi) \div 2
       IN ConcatRange(ss, lo, mid) \o ConcatRange(ss, mid + 1, hi)

\* The concatenation of a sequence of sequences.
Flatten(ss) == ConcatRange(ss, 1, Len(ss))

RECURSIVE SumRange(_, _, _)
SumRange(xs, lo, hi) ==
  IF lo > hi THEN 0
  ELSE IF lo = hi THEN xs[lo]
  ELSE LET mid == (lo + hi) \div 2
       IN SumRange(xs, lo, mid) + SumRange(xs, mid + 1, hi)

SumSeq(xs) == SumRange(xs, 1, Len(xs))

\* parts.join(sep)
join(parts, sep) ==
  Flatten([i \in 1..Len(parts) |-> IF i = 1 THEN parts[i] ELSE sep \o parts[i]])

\* The pieces of s[lo..hi] between the occurrences of c, by halves: the last
\* piece of the left half continues in the first piece of the right half.
RECURSIVE splitRange(_, _, _, _)
splitRange(s, c, lo, hi) ==
  IF lo > hi THEN << <<>> >>
  ELSE IF lo = hi THEN (IF s[lo] = c THEN << <<>>, <<>> >> ELSE << <<s[lo]>> >>)
  ELSE LET mid == (lo + hi) \div 2
           l == splitRange(s, c, lo, mid)
           r == splitRange(s, c, mid + 1, hi)
       IN SubSeq(l, 1, Len(l) - 1) \o << l[Len(l)] \o r[1] >> \o Tail(r)

\* str.split(c) for a single character c: always at least one piece.
split(s, c) == IF IndexOfChar(s, c) = 0 THEN <<s>> ELSE splitRange(s, c, 1, Len(s))

\* str.split(/\s+/) of a trimmed, non-empty string.
RECURSIVE splitWhitespace(_)
splitWhitespace(s) ==
  IF \A i \in 1..Len(s) : s[i] \notin WhiteSpace THEN <<s>>
  ELSE LET i == MinOf({j \in 1..Len(s) : s[j] \in WhiteSpace})
       IN <<SubStr(s, 1, i - 1)>> \o splitWhitespace(trimStart(SubStr(s, i, Len(s))))

\* str.replace(/c/g, to) for a single character c.
replaceChar(s, c, to) ==
  Flatten([i \in 1..Len(s) |-> IF s[i] = c THEN to ELSE <<s[i]>>])

\* str.replace(/ab/g, to) for a two-character pattern: leftmost, non-overlapping.
RECURSIVE replacePair(_, _, _, _)
replacePair(s, a, b, to) ==
  IF Len(s) < 2 THEN s
  ELSE IF s[1] = a /\ s[2] = b
       THEN to \o replacePair(SubStr(s, 3, Len(s)), a, b, to)
       ELSE <<s[1]>> \o replacePair(Tail(s), a, b, to)

\* ' '.repeat(n)
spaces(n) == [i \in 1..n |-> " "]

RECURSIVE NatToStr(_)
NatToStr(n) ==
  IF n < 10 THEN <<DigitSeq[n + 1]>>
  ELSE NatToStr(n \div 10) \o <<DigitSeq[(n % 10) + 1]>>

\* String(n) of an integer.
NumToStr(n) == IF n < 0 THEN <<"-">> \o NatToStr(-n) ELSE NatToStr(n)

RECURSIVE DigitsToNat(_, _)
DigitsToNat(s, acc) ==
  IF s = <<>> THEN acc ELSE DigitsToNat(Tail(s), 10 * acc + DigitVal(s[1]))

\* The longest prefix of s made of digits.
DigitPrefix(s) ==
  IF \A i \in 1..Len(s) : s[i] \in Digits THEN s
  ELSE SubStr(s, 1, MinOf({i \in 1..Len(s) : s[i] \notin Digits}) - 1)

\* parseInt(s, 10): leading whitespace, an optional sign, then the digit prefix.
\* [ok |-> FALSE] stands for NaN.
parseInt(s) ==
  LET t == trimStart(s)
      neg == startsWith(t, "-")
      body == IF startsWith(t, "-") \/ startsWith(t, "+") THEN Tail(t) ELSE t
      ds == DigitPrefix(body)
  IN IF ds = <<>> THEN [ok |-> FALSE, n |-> 0]
     ELSE [ok |-> TRUE, n |-> IF neg THEN -DigitsToNat(ds, 0) ELSE DigitsToNat(ds, 0)]

\* Number(s) of a trimmed string over the modelled alphabet: an optional sign
\* followed by decimal digits; the empty string converts to 0.
Number(s) ==
  LET neg == startsWith(s, "-")
      body == IF startsWith(s, "-") \/ startsWith(s, "+") THEN Tail(s) ELSE s
  IN IF s = <<>> THEN [ok |-> TRUE, n |-> 0]
     ELSE IF body # <<>> /\ \A i \in 1..Len(body) : body[i] \in Digits
          THEN [ok |-> TRUE, n |-> IF neg THEN -DigitsToNat(body, 0) ELSE DigitsToNat(body, 0)]
          ELSE [ok |-> FALSE, n |-> 0]

(***************************************************************************)
(* The value model and ordered maps.                                        *)
(***************************************************************************)
VNull == [t |-> "null"]

VBool(b) == [t |-> "bool", v |-> b]

VNum(n) == [t |-> "num", v |-> n]

VStr(s) == [t |-> "str", v |-> s]

VArr(a) == [t |-> "arr", v |-> a]

VObj(o) == [t |-> "obj", v |-> o]

Prop(k, v) == [k |-> k, v |-> v]

isObject(x) == x.t = "obj"

isArray(x) == x.t = "arr"

isPrimitive(x) == x.t \in {"null", "str", "num", "bool"}

\* Object.keys(o) and Object.values(o) of an object's property list.
ObjectKeys(o) == [i \in 1..Len(o) |-> o[i].k]

ObjectValues(o) == [i \in 1..Len(o) |-> o[i].v]

MapHas(m, k) == \E i \in 1..Len(m) : m[i].k = k

MapGet(m, k) == m[CHOOSE i \in 1..Len(m) : m[i].k = k].v

\* m.set(k, v) / obj[k] = v: an existing key keeps its position.
MapSet(m, k, v) ==
  IF MapHas(m, k)
  THEN [i \in 1..Len(m) |-> IF m[i].k = k THEN Prop(k, v) ELSE m[i]]
  ELSE Append(m, Prop(k, v))

\* The elements of the finite set S as a sequence, ordered by the function rank.
SetToSeqBy(S, rank) ==
  [n \in 1..Cardinality(S) |->
     CHOOSE d \in S : Cardinality({e \in S : rank[e] < rank[d]}) = n - 1]

(***************************************************************************)
(* utils.ts                                                                 *)
(***************************************************************************)
QuoteChars == {":", "|", "\t", "\n", "\r", "\"", "[", "]", "{", "}", ",", "^", "@"}

needsQuoting(str) ==
  \/ \E i \in 1..Len(str) : str[i] \in QuoteChars
  \/ (Len(str) >= 1 /\ str[1] \in Digits)
  \/ includesPair(str, " ", " ")

quoted(str) ==
  <<"\"">> \o replaceChar(replaceChar(str, "\\", <<"\\", "\\">>), "\"", <<"\\", "\"">>)
    \o <<"\"">>

escapeString(str) == IF ~needsQuoting(str) THEN str ELSE quoted(str)

unescapeString(str) ==
  LET inner == IF startsWith(str, "\"") /\ endsWith(str, "\"")
               THEN SubStr(str, 2, Len(str) - 1)
               ELSE str
  IN replacePair(replacePair(inner, "\\", "\"", <<"\"">>), "\\", "\\", <<"\\">>)

haveSameStructure(arr) ==
  /\ Len(arr) # 0
  /\ \A i \in 1..Len(arr) : isObject(arr[i])
  /\ \A i \in 1..Len(arr) :
       /\ Len(arr[i].v) = Len(arr[1].v)
       /\ {arr[i].v[j].k : j \in 1..Len(arr[i].v)} = {arr[1].v[j].k : j \in 1..Len(arr[1].v)}

allPrimitiveValues(arr) ==
  /\ \A i \in 1..Len(arr) : isObject(arr[i])
  /\ \A i \in 1..Len(arr) : \A j \in 1..Len(arr[i].v) : isPrimitive(arr[i].v[j].v)

getCommonKeys(arr) == IF Len(arr) = 0 THEN <<>> ELSE ObjectKeys(arr[1].v)

isAllPrimitives(arr) == \A i \in 1..Len(arr) : isPrimitive(arr[i])

DefaultIndent == 2

indent(level, width) == spaces(level * width)

(***************************************************************************)
(* references.ts: the ReferenceManager.  Its three Maps are property lists  *)
(* in insertion order: references (value -> id), reverseReferences          *)
(* (id -> value) and valueCounts (value -> count).                          *)
(***************************************************************************)
MinOccurrences == 3

MinLength == 5

MinSavings == 10

EmptyRM ==
  [references |-> <<>>, reverseReferences |-> <<>>, valueCounts |-> <<>>, nextId |-> 1]

\* The string leaves of a value in the order countStrings / analyzeValue visit them.
RECURSIVE StringLeaves(_)
StringLeaves(data) ==
  IF data.t = "str" THEN <<data.v>>
  ELSE IF isArray(data)
       THEN Flatten([i \in 1..Len(data.v) |-> StringLeaves(data.v[i])])
  ELSE IF isObject(data)
       THEN Flatten([i \in 1..Len(data.v) |-> StringLeaves(data.v[i].v)])
  ELSE <<>>

\* valueCounts after countStrings(data): known strings keep their position and
\* gain their occurrences, new strings are appended in first-encounter order.
countStrings(valueCounts, data) ==
  LET leaves == StringLeaves(data)
      n == Len(leaves)
      occ(s) == Cardinality({i \in 1..n : leaves[i] = s})
      first(s) == MinOf({i \in 1..n : leaves[i] = s})
      fresh == {leaves[i] : i \in 1..n} \ {valueCounts[i].k : i \in 1..Len(valueCounts)}
      order == SetToSeqBy(fresh, [x \in fresh |-> first(x)])
  IN [i \in 1..(Len(valueCounts) + Cardinality(fresh)) |->
        IF i <= Len(valueCounts)
        THEN Prop(valueCounts[i].k, valueCounts[i].v + occ(valueCounts[i].k))
        ELSE Prop(order[i - Len(valueCounts)], occ(order[i - Len(valueCounts)]))]

\* calculateSavings without the cost of the definition line.
calculateSavingsPerUse(val, count) == Len(val) * count - 2 * count

calculateSavings(val, count) ==
  LET withoutRefs == Len(val) * count
      withRefs == 2 * count + Len(val) + 3
  IN withoutRefs - withRefs

\* The entries left in the order of the valueCounts map.
sortSkipped(entries) == entries

\* entries.sort((a, b) => b.savings - a.savings): a stable sort, descending.
sortBySavings(entries) ==
  LET rank(i) ==
        Cardinality({j \in 1..Len(entries) : entries[j].savings > entries[i].savings})
        + Cardinality({j \in 1..(i - 1) : entries[j].savings = entries[i].savings})
        + 1
  IN [n \in 1..Len(entries) |-> entries[CHOOSE i \in 1..Len(entries) : rank(i) = n]]

RECURSIVE assignIds(_, _, _)
assignIds(rm, entries, i) ==
  IF i > Len(entries) THEN rm
  ELSE assignIds(
         [rm EXCEPT !.references = MapSet(rm.references, entries[i].value, rm.nextId),
                    !.reverseReferences = MapSet(rm.reverseReferences, rm.nextId, entries[i].value),
                    !.nextId = rm.nextId + 1],
         entries, i + 1)

build(rm, data) ==
  LET counts == countStrings(rm.valueCounts, data)
      Beneficial(e) ==
        /\ e.v >= MinOccurrences
        /\ Len(e.k) >= MinLength
        /\ calculateSavings(e.k, e.v) >= MinSavings
      kept == SelectSeq(counts, Beneficial)
      entries == [i \in 1..Len(kept) |->
                    [value |-> kept[i].k, occurrences |-> kept[i].v,
                     savings |-> calculateSavings(kept[i].k, kept[i].v)]]
  IN assignIds([rm EXCEPT !.valueCounts = counts], sortBySavings(entries), 1)

getReference(rm, val) == MapGet(rm.references, val)

hasReference(rm, val) == MapHas(rm.references, val)

\* get count()
referenceCount(rm) == Len(rm.references)

escapeValue(val) ==
  IF \/ \E i \in 1..Len(val) : val[i] \in {":", "|", "\t", "\n", "\r", "\"", "^", "@"}
     \/ includesPair(val, " ", " ")
  THEN quoted(val)
  ELSE val

getDefinitions(rm) ==
  LET ids == {rm.reverseReferences[i].k : i \in 1..Len(rm.reverseReferences)}
      byId(id) == id
      sorted == SetToSeqBy(ids, [x \in ids |-> byId(x)])
  IN [i \in 1..Len(sorted) |->
        <<"^">> \o NumToStr(sorted[i]) \o <<"=">>
          \o escapeValue(MapGet(rm.reverseReferences, sorted[i]))]

\* clear() that leaves the occurrence counts in place.
clearTables(rm) ==
  [rm EXCEPT !.references = <<>>, !.reverseReferences = <<>>, !.nextId = 1]

clear(rm) ==
  [rm EXCEPT !.references = <<>>, !.reverseReferences = <<>>, !.valueCounts = <<>>,
             !.nextId = 1]

(***************************************************************************)
(* optimizer: the parts of the analysis that encode reads.                  *)
(***************************************************************************)
CountChar(s, c) == Cardinality({i \in 1..Len(s) : s[i] = c})

\* countOccurrences(JSON.stringify(v), d) for d one of "|", "," and tab.
\* JSON.stringify writes a tab inside a string as the two characters \t, puts
\* one comma between neighbouring elements and properties, and writes null,
\* booleans and integers without any of the three characters.
RECURSIVE JsonCount(_, _)
JsonCount(v, d) ==
  LET commas(n) == IF d = "," /\ n > 0 THEN n - 1 ELSE 0
      inString(s) == IF d = "\t" THEN 0 ELSE CountChar(s, d)
  IN IF v.t = "str" THEN inString(v.v)
     ELSE IF isArray(v)
          THEN SumSeq([i \in 1..Len(v.v) |-> JsonCount(v.v[i], d)]) + commas(Len(v.v))
     ELSE IF isObject(v)
          THEN SumSeq([i \in 1..Len(v.v) |-> inString(v.v[i].k) + JsonCount(v.v[i].v, d)])
               + commas(Len(v.v))
     ELSE 0

\* What analyzeValue adds to delimiterFrequency[d]: every array node of the
\* value, nested ones included, is stringified and tallied once.
RECURSIVE analyzeDelimiterFrequency(_, _)
analyzeDelimiterFrequency(v, d) ==
  IF isArray(v)
  THEN SumSeq([i \in 1..Len(v.v) |-> analyzeDelimiterFrequency(v.v[i], d)]) + JsonCount(v, d)
  ELSE IF isObject(v)
       THEN SumSeq([i \in 1..Len(v.v) |-> analyzeDelimiterFrequency(v.v[i].v, d)])
  ELSE 0

analyze(data) ==
  [repeatedValues |-> countStrings(<<>>, data),
   delimiterFrequency |->
     <<Prop("|", analyzeDelimiterFrequency(data, "|")),
       Prop(",", analyzeDelimiterFrequency(data, ",")),
       Prop("\t", analyzeDelimiterFrequency(data, "\t"))>>]

\* The loop of chooseDelimiter over the frequency map; inf stands for Infinity.
RECURSIVE minDelimiterScan(_, _, _)
minDelimiterScan(frequencies, i, best) ==
  IF i > Len(frequencies) THEN best
  ELSE minDelimiterScan(frequencies, i + 1,
         IF best.inf \/ frequencies[i].v < best.minCount
         THEN [minDelimiter |-> frequencies[i].k, minCount |-> frequencies[i].v, inf |-> FALSE]
         ELSE best)

chooseDelimiter(analysis) ==
  LET frequencies == analysis.delimiterFrequency
      scan == minDelimiterScan(frequencies, 1, [minDelimiter |-> "|", minCount |-> 0, inf |-> TRUE])
  IN IF /\ MapGet(frequencies, "|") = MapGet(frequencies, "\t")
        /\ MapGet(frequencies, "|") = MapGet(frequencies, ",")
     THEN "|"
     ELSE scan.minDelimiter

RefSavingsThreshold == 50

\* The estimate without the cost of the ^N written at each use.
estimateWithoutUseCost(analysis) ==
  LET rv == analysis.repeatedValues
  IN SumSeq([i \in 1..Len(rv) |->
       IF rv[i].v >= MinOccurrences /\ Len(rv[i].k) >= MinLength
       THEN (rv[i].v - 1) * Len(rv[i].k)
       ELSE 0])

estimateReferenceSavings(analysis) ==
  LET rv == analysis.repeatedValues
      savings(e) == (e.v - 1) * Len(e.k) - e.v * 2
  IN SumSeq([i \in 1..Len(rv) |->
       IF rv[i].v >= MinOccurrences /\ Len(rv[i].k) >= MinLength /\ savings(rv[i]) > 0
       THEN savings(rv[i])
       ELSE 0])

(***************************************************************************)
(* encoder.ts.  e is the encoder's state during one encode call:            *)
(* [indent, usedDelimiter, columnar, references].                           *)
(***************************************************************************)
ColumnarMinRows == 1000

\* String(v) of a primitive.
JsString(v) ==
  CASE v.t = "null" -> <<"n", "u", "l", "l">>
    [] v.t = "bool" -> IF v.v THEN <<"t", "r", "u", "e">> ELSE <<"f", "a", "l", "s", "e">>
    [] v.t = "num" -> NumToStr(v.v)
    [] v.t = "str" -> v.v

\* formatValue of a primitive (the only values the callers pass).
formatValue(e, v) ==
  CASE v.t = "null" -> <<"_">>
    [] v.t = "bool" -> IF v.v THEN <<"+">> ELSE <<"-">>
    [] v.t = "num" -> NumToStr(v.v)
    [] v.t = "str" ->
         IF hasReference(e.references, v.v)
         THEN <<"^">> \o NumToStr(getReference(e.references, v.v))
         ELSE escapeString(v.v)

encodeNull(e, key, depth) == <<indent(depth, e.indent) \o key \o <<":", "_">>>>

encodeBoolean(e, v, key, depth) ==
  <<indent(depth, e.indent) \o key \o <<":">> \o (IF v THEN <<"+">> ELSE <<"-">>)>>

\* encodeNumber as value.toFixed(1) would render the number.
encodeNumberFixed(e, v, key, depth) ==
  <<indent(depth, e.indent) \o key \o <<":">> \o NumToStr(v) \o <<".", "0">>>>

encodeNumber(e, v, key, depth) ==
  <<indent(depth, e.indent) \o key \o <<":">> \o NumToStr(v)>>

encodeString(e, v, key, depth) ==
  LET prefix == indent(depth, e.indent)
  IN IF hasReference(e.references, v)
     THEN <<prefix \o key \o <<":", "^">> \o NumToStr(getReference(e.references, v))>>
     ELSE <<prefix \o key \o <<":">> \o escapeString(v)>>

shouldUseTabular(arr) ==
  Len(arr) >= 3 /\ haveSameStructure(arr) /\ allPrimitiveValues(arr)

\* 1 - uniqueValues.size / values.length > 0.3, in exact arithmetic.
shouldUseColumnar(e, arr) ==
  /\ e.columnar # "false"
  /\ Len(arr) >= ColumnarMinRows
  /\ haveSameStructure(arr)
  /\ allPrimitiveValues(arr)
  /\ \E j \in 1..Len(arr[1].v) :
       LET key == arr[1].v[j].k
           uniqueValues == {JsString(MapGet(arr[i].v, key)) : i \in 1..Len(arr)}
       IN 10 * (Len(arr) - Cardinality(uniqueValues)) > 3 * Len(arr)

encodeTabular(e, arr, key, depth) ==
  LET prefix == indent(depth, e.indent)
      keys == getCommonKeys(arr)
      header == prefix \o key \o <<"@">> \o NumToStr(Len(arr)) \o <<e.usedDelimiter>>
                  \o join(keys, <<",">>) \o <<":">>
      row(obj) ==
        prefix \o join([j \in 1..Len(keys) |-> formatValue(e, MapGet(obj, keys[j]))],
                       <<e.usedDelimiter>>)
  IN <<header>> \o [i \in 1..Len(arr) |-> row(arr[i].v)]

encodeColumn(e, values) ==
  LET n == Len(values)
      allNumbers == \A i \in 1..n : values[i].t = "num"
      min == MinOf({values[i].v : i \in 1..n})
      max == MaxOf({values[i].v : i \in 1..n})
      strs == [i \in 1..n |-> JsString(values[i])]
      distinct == {strs[i] : i \in 1..n}
      first(s) == MinOf({i \in 1..n : strs[i] = s})
      order == SetToSeqBy(distinct, [x \in distinct |-> first(x)])
      occ(s) == Cardinality({i \in 1..n : strs[i] = s})
      entries == [i \in 1..Len(order) |->
                    <<"\"">> \o order[i] \o <<"\"", "=">> \o NumToStr(occ(order[i]))]
  IN IF allNumbers /\ \A i \in 1..n : values[i].v = min + (i - 1)
     THEN <<"[">> \o NumToStr(min) \o <<".", ".">> \o NumToStr(max) \o <<"]">>
     ELSE IF 10 * Cardinality(distinct) < 3 * n
          THEN <<"[">> \o join(entries, <<",">>) \o <<"]">>
          ELSE <<"[">> \o join([i \in 1..n |-> formatValue(e, values[i])], <<",">>) \o <<"]">>

encodeColumnar(e, arr, key, depth) ==
  LET prefix == indent(depth, e.indent)
      keys == getCommonKeys(arr)
      header == prefix \o key \o <<"@">> \o NumToStr(Len(arr)) \o <<"|", "|">>
                  \o join(keys, <<",">>) \o <<":">>
      column(colKey) ==
        prefix \o <<"|">> \o colKey \o <<":">>
          \o encodeColumn(e, [i \in 1..Len(arr) |-> MapGet(arr[i].v, colKey)])
  IN <<header>> \o [j \in 1..Len(keys) |-> column(keys[j])]

encodeInlineArray(e, arr, key, depth) ==
  <<indent(depth, e.indent) \o key \o <<":", "[">>
      \o join([i \in 1..Len(arr) |-> formatValue(e, arr[i])], <<" ">>) \o <<"]">>>>

RECURSIVE encodeValue(_, _, _, _)
encodeListArray(e, arr, key, depth) ==
  <<indent(depth, e.indent) \o key \o <<"@">> \o NumToStr(Len(arr)) \o <<":">>>>
    \o Flatten([i \in 1..Len(arr) |-> encodeValue(e, arr[i], <<"-">>, depth + 1)])

encodeArray(e, arr, key, depth) ==
  IF Len(arr) = 0 THEN <<indent(depth, e.indent) \o key \o <<"@", "0", ":">>>>
  ELSE IF shouldUseColumnar(e, arr) THEN encodeColumnar(e, arr, key, depth)
  ELSE IF shouldUseTabular(arr) THEN encodeTabular(e, arr, key, depth)
  ELSE IF isAllPrimitives(arr) THEN encodeInlineArray(e, arr, key, depth)
  ELSE encodeListArray(e, arr, key, depth)

encodeObject(e, obj, key, depth) ==
  LET inner == IF key # <<>> THEN depth + 1 ELSE depth
      header == IF key # <<>> THEN <<indent(depth, e.indent) \o key \o <<":">>>> ELSE <<>>
  IN header
       \o Flatten([i \in 1..Len(obj) |-> encodeValue(e, obj[i].v, obj[i].k, inner)])

encodeValue(e, v, key, depth) ==
  CASE v.t = "null" -> encodeNull(e, key, depth)
    [] v.t = "bool" -> encodeBoolean(e, v.v, key, depth)
    [] v.t = "num" -> encodeNumber(e, v.v, key, depth)
    [] v.t = "str" -> encodeString(e, v.v, key, depth)
    [] v.t = "arr" -> encodeArray(e, v.v, key, depth)
    [] v.t = "obj" -> encodeObject(e, v.v, key, depth)

\* The options object the constructor completes with its defaults; references
\* and columnar are "true", "false" or "auto".
DefaultEncodeOptions ==
  [indent |-> DefaultIndent, delimiter |-> "auto", references |-> "auto", columnar |-> "auto"]

\* CTFEncoder.encode on an encoder whose ReferenceManager is rm: the emitted
\* text and the ReferenceManager the instance is left with.
CTFEncoder_encode(rm, opts, v) ==
  LET analysis == analyze(v)
      usedDelimiter == IF opts.delimiter = "auto" THEN chooseDelimiter(analysis)
                       ELSE opts.delimiter
      shouldUseRefs ==
        \/ opts.references = "true"
        \/ (opts.references = "auto"
            /\ estimateReferenceSavings(analysis) > RefSavingsThreshold)
      refs == IF shouldUseRefs THEN build(rm, v) ELSE rm
      e == [indent |-> opts.indent, usedDelimiter |-> usedDelimiter,
            columnar |-> opts.columnar, references |-> refs]
      defs == IF referenceCount(refs) > 0 THEN getDefinitions(refs) \o <<<<>>>> ELSE <<>>
      body == IF isArray(v) THEN encodeValue(e, v, <<"d", "a", "t", "a">>, 0)
              ELSE encodeValue(e, v, <<>>, 0)
  IN [text |-> join(defs \o body, <<"\n">>), references |-> refs]

\* encode(value, options): a new CTFEncoder per call.
encode(v, opts) == CTFEncoder_encode(EmptyRM, opts, v).text

(***************************************************************************)
(* decoder.ts.  A parse step returns [err, val, cur]: the value and the     *)
(* line cursor it leaves (context.currentLine, 0-based), or err = TRUE and   *)
(* val the error thrown.                                                    *)
(***************************************************************************)
Ok(v, cur) == [err |-> FALSE, val |-> v, cur |-> cur]

Throw(kind, line, cur) ==
  [err |-> TRUE, val |-> [t |-> "error", kind |-> kind, line |-> line], cur |-> cur]

DefaultDecodeOptions == [strict |-> TRUE, validate |-> TRUE]

\* The JS truth value of a decoded value.
Truthy(v) ==
  CASE v.t = "null" -> FALSE
    [] v.t = "bool" -> v.v
    [] v.t = "num" -> v.v # 0
    [] v.t = "str" -> v.v # <<>>
    [] OTHER -> TRUE

getIndentLevel(line) ==
  LET lead == IF \A i \in 1..Len(line) : line[i] \in {" ", "\t"} THEN Len(line)
              ELSE MinOf({i \in 1..Len(line) : line[i] \notin {" ", "\t"}}) - 1
  IN SumSeq([i \in 1..lead |-> IF line[i] = " " THEN 1 ELSE 2])

\* The loop of splitByDelimiter from character i on.
RECURSIVE splitScan(_, _, _, _, _, _, _)
splitScan(str, delimiter, i, current, inQuotes, escapeNext, acc) ==
  IF i > Len(str) THEN (IF current # <<>> THEN Append(acc, current) ELSE acc)
  ELSE LET char == str[i]
       IN IF escapeNext
          THEN splitScan(str, delimiter, i + 1, Append(current, char), inQuotes, FALSE, acc)
          ELSE IF char = "\\"
          THEN splitScan(str, delimiter, i + 1, Append(current, char), inQuotes, TRUE, acc)
          ELSE IF char = "\""
          THEN splitScan(str, delimiter, i + 1, Append(current, char), ~inQuotes, FALSE, acc)
          ELSE IF ~inQuotes /\ char = delimiter
          THEN splitScan(str, delimiter, i + 1, <<>>, inQuotes, FALSE, Append(acc, current))
          ELSE splitScan(str, delimiter, i + 1, Append(current, char), inQuotes, FALSE, acc)

splitByDelimiter(str, delimiter) == splitScan(str, delimiter, 1, <<>>, FALSE, FALSE, <<>>)

\* parsePrimitive with the reference map refs (id -> text); cur is carried
\* through unchanged.
RECURSIVE parsePrimitive(_, _, _)
parsePrimitive(raw, refs, cur) ==
  LET v == trim(raw)
      refId == parseInt(SubStr(v, 2, Len(v)))
      content == trim(SubStr(v, 2, Len(v) - 1))
      tokens == splitWhitespace(content)
      items == [i \in 1..Len(tokens) |-> parsePrimitive(tokens[i], refs, cur)]
      num == Number(v)
  IN IF v = <<"_">> THEN Ok(VNull, cur)
     ELSE IF v = <<"+">> THEN Ok(VBool(TRUE), cur)
     ELSE IF v = <<"-">> THEN Ok(VBool(FALSE), cur)
     ELSE IF startsWith(v, "^")
     THEN IF refId.ok /\ MapHas(refs, refId.n)
          THEN Ok(VStr(MapGet(refs, refId.n)), cur)
          ELSE Throw("parse", 0, cur)
     ELSE IF startsWith(v, "[") /\ endsWith(v, "]")
     THEN IF content = <<>> THEN Ok(VArr(<<>>), cur)
          ELSE IF \E i \in 1..Len(items) : items[i].err
          THEN items[MinOf({i \in 1..Len(items) : items[i].err})]
          ELSE Ok(VArr([i \in 1..Len(items) |-> items[i].val]), cur)
     ELSE IF startsWith(v, "\"") /\ endsWith(v, "\"") THEN Ok(VStr(unescapeString(v)), cur)
     ELSE IF num.ok /\ v # <<>> THEN Ok(VNum(num.n), cur)
     ELSE Ok(VStr(v), cur)

\* line.match(/^\^(\d+)=(.+)$/)
refMatch(line) ==
  LET ds == DigitPrefix(SubStr(line, 2, Len(line)))
      eq == Len(ds) + 2
  IN IF /\ startsWith(line, "^")
        /\ ds # <<>>
        /\ Len(line) > eq
        /\ line[eq] = "="
     THEN [ok |-> TRUE, id |-> DigitsToNat(ds, 0), value |-> SubStr(line, eq + 1, Len(line))]
     ELSE [ok |-> FALSE]

RECURSIVE parseReferences(_, _, _)
parseReferences(lines, cur, refs) ==
  IF cur >= Len(lines) THEN [references |-> refs, cur |-> cur]
  ELSE LET line == lines[cur + 1]
           m == refMatch(line)
           val == IF startsWith(m.value, "\"") /\ endsWith(m.value, "\"")
                  THEN unescapeString(m.value)
                  ELSE m.value
       IN IF trim(line) = <<>> THEN parseReferences(lines, cur + 1, refs)
          ELSE IF m.ok THEN parseReferences(lines, cur + 1, MapSet(refs, m.id, val))
          ELSE [references |-> refs, cur |-> cur]

\* keyPart.match(/^(.+?)@(\d+)(\|{1,2})(.*?)$/): the lazy key ends at the first
\* "@" (not the first character) that digits and then a pipe follow; a second
\* pipe right after the first makes the delimiter group "||".
arrayMatch(keyPart) ==
  LET n == Len(keyPart)
      digitsAt(p) == DigitPrefix(SubStr(keyPart, p + 1, n))
      fits(p) ==
        /\ keyPart[p] = "@"
        /\ digitsAt(p) # <<>>
        /\ p + Len(digitsAt(p)) + 1 <= n
        /\ keyPart[p + Len(digitsAt(p)) + 1] = "|"
      ps == {p \in 2..n : fits(p)}
      at == MinOf(ps)
      bar == at + Len(digitsAt(at)) + 1
      double == bar + 1 <= n /\ keyPart[bar + 1] = "|"
  IN IF ps = {} THEN [ok |-> FALSE]
     ELSE [ok |-> TRUE,
           key |-> SubStr(keyPart, 1, at - 1),
           count |-> DigitsToNat(digitsAt(at), 0),
           delimiter |-> IF double THEN <<"|", "|">> ELSE <<"|">>,
           fields |-> SubStr(keyPart, (IF double THEN bar + 2 ELSE bar + 1), n)]

\* A missing cell read as the null token.
rowCellNull(values, j) == IF j <= Len(values) THEN values[j] ELSE <<"_">>

\* values[j] || '' with j counted from 1.
rowCell(values, j) == IF j <= Len(values) THEN values[j] ELSE <<>>

\* The cells of one tabular row zipped to the field names, from field j on.
RECURSIVE parseRow(_, _, _, _, _, _)
parseRow(fields, values, refs, cur, j, obj) ==
  IF j > Len(fields) THEN Ok(VObj(obj), cur)
  ELSE LET p == parsePrimitive(rowCell(values, j), refs, cur)
       IN IF p.err THEN p
          ELSE parseRow(fields, values, refs, cur, j + 1, MapSet(obj, fields[j], p.val))

\* One pass of the row loop of parseTabularArray over line p, from the loop
\* state st: i rows read so far into rows, res set once the loop has ended.
tabularStep(ctx, count, fields, delimiter, st, p) ==
  IF st.done THEN st
  ELSE IF st.i >= count
  THEN [st EXCEPT !.done = TRUE, !.res = Ok(VArr(st.rows), p - 1)]
  ELSE LET trimmed == trim(ctx.lines[p])
           values == splitByDelimiter(trimmed, delimiter)
           row == parseRow(fields, values, ctx.references, p - 1, 1, <<>>)
       IN IF trimmed = <<>>
          THEN IF ctx.options.strict
               THEN [st EXCEPT !.done = TRUE, !.res = Throw("parse", p, p - 1)]
               ELSE st
          ELSE IF Len(values) # Len(fields) /\ ctx.options.strict
          THEN [st EXCEPT !.done = TRUE, !.res = Throw("parse", p, p - 1)]
          ELSE IF row.err THEN [st EXCEPT !.done = TRUE, !.res = row]
          ELSE [st EXCEPT !.i = st.i + 1, !.rows = Append(st.rows, row.val)]

\* The passes of the row loop over lines lo..hi, in order.
RECURSIVE tabularFold(_, _, _, _, _, _, _)
tabularFold(ctx, count, fields, delimiter, st, lo, hi) ==
  IF lo > hi THEN st
  ELSE IF lo = hi THEN tabularStep(ctx, count, fields, delimiter, st, lo)
  ELSE LET half == tabularFold(ctx, count, fields, delimiter, st, lo, (lo + hi) \div 2)
       IN IF half.done THEN half
          ELSE tabularFold(ctx, count, fields, delimiter, half, (lo + hi) \div 2 + 1, hi)

\* The end of the row loop when the lines ran out before it ended.
tabularEnd(ctx, count, st) ==
  IF st.done THEN st.res
  ELSE IF st.i >= count THEN Ok(VArr(st.rows), Len(ctx.lines))
  ELSE IF ctx.options.validate THEN Throw("validation", 0, Len(ctx.lines))
  ELSE Ok(VArr(st.rows), Len(ctx.lines))

\* The row loop of parseTabularArray from line cur on.
tabularRows(ctx, cur, count, fields, delimiter) ==
  tabularEnd(ctx, count,
             tabularFold(ctx, count, fields, delimiter,
                         [done |-> FALSE, res |-> Ok(VNull, cur), i |-> 0, rows |-> <<>>],
                         cur + 1, Len(ctx.lines)))

parseTabularArray(ctx, cur, count, fieldsStr, delimiter, baseIndent) ==
  tabularRows(ctx, cur, count, split(fieldsStr, ","), delimiter)

\* data.match(/^\[(\d+)\.\.(\d+)\]$/)
rangeMatch(data) ==
  LET n == Len(data)
      a == DigitPrefix(SubStr(data, 2, n))
      dot == Len(a) + 2
      b == DigitPrefix(SubStr(data, dot + 2, n))
      close == dot + 2 + Len(b)
  IN IF /\ startsWith(data, "[")
        /\ a # <<>>
        /\ n >= dot + 1
        /\ data[dot] = "." /\ data[dot + 1] = "."
        /\ b # <<>>
        /\ close = n
        /\ data[close] = "]"
     THEN [ok |-> TRUE, start |-> DigitsToNat(a, 0), end |-> DigitsToNat(b, 0)]
     ELSE [ok |-> FALSE]

\* part.match(/"(.+?)"=(\d+)/): the leftmost quote from which a lazy, non-empty
\* run reaches a quote that "=" and a digit follow.
eqMatch(part) ==
  LET n == Len(part)
      closes(i) == {j \in (i + 2)..(n - 2) :
                      part[j] = "\"" /\ part[j + 1] = "=" /\ part[j + 2] \in Digits}
      opens == {i \in 1..n : part[i] = "\"" /\ closes(i) # {}}
      open == MinOf(opens)
      close == MinOf(closes(open))
  IN IF opens = {} THEN [ok |-> FALSE, value |-> <<>>, rleCount |-> 0]
     ELSE [ok |-> TRUE,
           value |-> SubStr(part, open + 1, close - 1),
           rleCount |-> DigitsToNat(DigitPrefix(SubStr(part, close + 2, n)), 0)]

\* The values one run-length part pushes: rleCount copies of the parsed value,
\* nothing when the part does not match.
rleRun(m, p) ==
  IF ~m.ok \/ m.rleCount = 0 THEN [err |-> FALSE, val |-> <<>>]
  ELSE IF p.err THEN p
  ELSE [err |-> FALSE, val |-> [i \in 1..m.rleCount |-> p.val]]

\* The values pushed by a loop over parts: the first error thrown, else all.
pushAll(rs, cur) ==
  IF \E i \in 1..Len(rs) : rs[i].err
  THEN rs[MinOf({i \in 1..Len(rs) : rs[i].err})]
  ELSE Ok([i \in 1..Len(rs) |-> rs[i].val], cur)

\* The same for parts that each push a run of values.
pushRuns(rs, cur) ==
  IF \E i \in 1..Len(rs) : rs[i].err
  THEN rs[MinOf({i \in 1..Len(rs) : rs[i].err})]
  ELSE Ok(Flatten([i \in 1..Len(rs) |-> rs[i].val]), cur)

\* The range branch of parseColumnData.
rangeValues(range, cur) ==
  Ok([i \in 1..(range.end - range.start + 1) |-> VNum(range.start + i - 1)], cur)

\* The bracketed branch of parseColumnData, over the comma-separated parts.
bracketValues(content, parts, refs, cur) ==
  IF IndexOfChar(content, "=") # 0
  THEN pushRuns([i \in 1..Len(parts) |->
                   rleRun(eqMatch(parts[i]),
                          parsePrimitive(eqMatch(parts[i]).value, refs, cur))], cur)
  ELSE pushAll([i \in 1..Len(parts) |-> parsePrimitive(trim(parts[i]), refs, cur)], cur)

\* parseColumnData: [err, val] with val the column as a sequence of values.
parseColumnData(data, count, refs, cur) ==
  IF rangeMatch(data).ok THEN rangeValues(rangeMatch(data), cur)
  ELSE IF Len(data) >= 3 /\ startsWith(data, "[") /\ endsWith(data, "]")
  THEN bracketValues(SubStr(data, 2, Len(data) - 1),
                     split(SubStr(data, 2, Len(data) - 1), ","), refs, cur)
  ELSE pushAll(<<parsePrimitive(data, refs, cur)>>, cur)

\* trimmed.match(/^\|(.+?):(.+)$/)
colMatch(trimmed) ==
  LET n == Len(trimmed)
      ps == {p \in 3..(n - 1) : trimmed[p] = ":"}
      colon == MinOf(ps)
  IN IF startsWith(trimmed, "|") /\ ps # {}
     THEN [ok |-> TRUE, field |-> SubStr(trimmed, 2, colon - 1),
           data |-> SubStr(trimmed, colon + 1, n)]
     ELSE [ok |-> FALSE, field |-> <<>>, data |-> <<>>]

RECURSIVE columnLoop(_, _, _, _, _)

\* columns.set(field, parseColumnData(...)) and the next turn of the loop.
columnSet(ctx, count, baseIndent, columns, field, col) ==
  IF col.err THEN col
  ELSE columnLoop(ctx, col.cur + 1, count, baseIndent, MapSet(columns, field, col.val))

\* One turn of the column loop on a line that is not blank.
columnLine(ctx, cur, count, baseIndent, columns, ind, m) ==
  IF ind <= baseIndent \/ ~m.ok THEN Ok(columns, cur)
  ELSE columnSet(ctx, count, baseIndent, columns, m.field,
                 parseColumnData(m.data, count, ctx.references, cur))

\* The column loop of parseColumnarArray: [err, val, cur] with val the columns map.
columnLoop(ctx, cur, count, baseIndent, columns) ==
  IF cur >= Len(ctx.lines) THEN Ok(columns, cur)
  ELSE IF trim(ctx.lines[cur + 1]) = <<>>
  THEN columnLoop(ctx, cur + 1, count, baseIndent, columns)
  ELSE columnLine(ctx, cur, count, baseIndent, columns,
                  getIndentLevel(ctx.lines[cur + 1]), colMatch(trim(ctx.lines[cur + 1])))

\* Row i (1-based) rebuilt from the columns, from field j on.
RECURSIVE rowFromColumns(_, _, _, _, _)
rowFromColumns(fields, columns, i, j, obj) ==
  IF j > Len(fields) THEN VObj(obj)
  ELSE rowFromColumns(fields, columns, i, j + 1,
         IF MapHas(columns, fields[j]) /\ i <= Len(MapGet(columns, fields[j]))
         THEN MapSet(obj, fields[j], MapGet(columns, fields[j])[i])
         ELSE obj)

\* The rows parseColumnarArray rebuilds once the columns are read.
columnarRows(fields, count, cols) ==
  IF cols.err THEN cols
  ELSE Ok(VArr([i \in 1..count |-> rowFromColumns(fields, cols.val, i, 1, <<>>)]),
          cols.cur)

parseColumnarArray(ctx, cur, count, fieldsStr, baseIndent) ==
  columnarRows(split(fieldsStr, ","), count,
               columnLoop(ctx, cur, count, baseIndent, <<>>))

\* What parseValue returns once its loop has ended with the object result.
parseValueResult(result, cur) ==
  IF Len(result) = 0 THEN Ok(VNull, cur)
  ELSE IF Len(result) = 1 /\ MapHas(result, <<"-">>) /\ Truthy(MapGet(result, <<"-">>))
  THEN Ok(MapGet(result, <<"-">>), cur)
  ELSE Ok(VObj(result), cur)

RECURSIVE parseValue(_, _, _, _)

\* result[key] = parsed, and the next turn of the loop of parseValue.
resultSet(ctx, baseIndent, result, key, parsed) ==
  IF parsed.err THEN parsed
  ELSE parseValue(ctx, parsed.cur, baseIndent, MapSet(result, key, parsed.val))

\* The array branch of parseValue: columnar for "||", tabular otherwise.
parseArray(ctx, cur, am, ind) ==
  IF am.delimiter = <<"|", "|">>
  THEN parseColumnarArray(ctx, cur, am.count, am.fields, ind)
  ELSE parseTabularArray(ctx, cur, am.count, am.fields, am.delimiter[1], ind)

\* A line of the form key:value at the base indent, the line already consumed.
parseKeyValue(ctx, cur, baseIndent, result, ind, keyPart, valuePart, am) ==
  resultSet(ctx, baseIndent, result, (IF am.ok THEN am.key ELSE keyPart),
            IF am.ok THEN parseArray(ctx, cur, am, ind)
            ELSE IF valuePart = <<>> THEN parseValue(ctx, cur, ind + 1, <<>>)
            ELSE parsePrimitive(valuePart, ctx.references, cur))

\* One turn of the loop of parseValue on a line that is not blank.
parseLine(ctx, cur, baseIndent, result, ind, trimmed, colonIndex) ==
  IF ind # baseIndent THEN parseValueResult(result, cur)
  ELSE IF colonIndex = 0 THEN Throw("parse", cur + 1, cur)
  ELSE parseKeyValue(ctx, cur + 1, baseIndent, result, ind,
                     SubStr(trimmed, 1, colonIndex - 1),
                     SubStr(trimmed, colonIndex + 1, Len(trimmed)),
                     arrayMatch(SubStr(trimmed, 1, colonIndex - 1)))

\* parseValue from line cur on, with the properties accumulated in result.
parseValue(ctx, cur, baseIndent, result) ==
  IF cur >= Len(ctx.lines) THEN parseValueResult(result, cur)
  ELSE IF trim(ctx.lines[cur + 1]) = <<>>
  THEN parseValue(ctx, cur + 1, baseIndent, result)
  ELSE parseLine(ctx, cur, baseIndent, result, getIndentLevel(ctx.lines[cur + 1]),
                 trim(ctx.lines[cur + 1]), IndexOfChar(trim(ctx.lines[cur + 1]), ":"))

\* input.split('\n').map(line => line.trimEnd())
splitLines(input) ==
  LET raw == split(input, "\n") IN [i \in 1..Len(raw) |-> trimEnd(raw[i])]

\* context.currentLine when decode returns or throws.
decodeCursor(input, opts) ==
  LET lines == splitLines(input)
      refs == parseReferences(lines, 0, <<>>)
      ctx == [lines |-> lines, references |-> refs.references, options |-> opts]
  IN parseValue(ctx, refs.cur, 0, <<>>).cur

\* decode(input, options): the decoded value, or the error thrown.
decode(input, opts) ==
  LET lines == splitLines(input)
      refs == parseReferences(lines, 0, <<>>)
      ctx == [lines |-> lines, references |-> refs.references, options |-> opts]
  IN parseValue(ctx, refs.cur, 0, <<>>).val

(***************************************************************************)
(* The decoder turn by turn.  context is the ParseContext of one decode     *)
(* call and stack its pending calls, innermost last; a turn is one pass of  *)
(* the loop of the innermost call.  A turn tells what it does to both:      *)
(* "go" (stay in the loop, frame being the call's own frame afterwards),    *)
(* "call" (enter frame), "exit" (leave the loop and return) or "throw".     *)
(* The variable turn holds the turn the decoder takes next, which context   *)
(* and stack determine.                                                     *)
(***************************************************************************)
\* The ParseContext decode creates.
ParseContext(lines, opts) ==
  [lines |-> lines, currentLine |-> 0, references |-> <<>>, options |-> opts]

\* A pending call: the function, its baseIndent and, for the array readers,
\* the declared count, the field names, the delimiter and the row index i.
Frame(fn, baseIndent, count, fields, delimiter, i) ==
  [fn |-> fn, baseIndent |-> baseIndent, count |-> count, fields |-> fields,
   delimiter |-> delimiter, i |-> i]

\* The calls decode makes, last first: parseReferences, then parseValue(0).
decodeCalls ==
  <<Frame("parseValue", 0, 0, <<>>, "", 0), Frame("parseReferences", 0, 0, <<>>, "", 0)>>

Go(ctx, frame) == [act |-> "go", ctx |-> ctx, frame |-> frame, error |-> [t |-> "none"]]

Call(ctx, frame) == [act |-> "call", ctx |-> ctx, frame |-> frame, error |-> [t |-> "none"]]

Exit(ctx, frame) == [act |-> "exit", ctx |-> ctx, frame |-> frame, error |-> [t |-> "none"]]

Raise(ctx, frame, error) == [act |-> "throw", ctx |-> ctx, frame |-> frame, error |-> error]

\* The blank row branch without its context.currentLine++.
keepBlankRow(ctx) == ctx

\* context.currentLine++
advance(ctx) == [ctx EXCEPT !.currentLine = @ + 1]

\* The blank row branch of the row reader: context.currentLine++; i--; continue.
skipBlankRow(ctx) == advance(ctx)

\* One turn of the loop of parseReferences.
referencesTurn(ctx, f) ==
  IF ctx.currentLine >= Len(ctx.lines) THEN Exit(ctx, f)
  ELSE LET line == ctx.lines[ctx.currentLine + 1]
           m == refMatch(line)
           val == IF startsWith(m.value, "\"") /\ endsWith(m.value, "\"")
                  THEN unescapeString(m.value)
                  ELSE m.value
       IN IF trim(line) = <<>> THEN Go(advance(ctx), f)
          ELSE IF m.ok
          THEN Go(advance([ctx EXCEPT !.references = MapSet(@, m.id, val)]), f)
          ELSE Exit(ctx, f)

\* The turn of parseValue on the line key:value at the base indent.
keyValueTurn(ctx, f, ind, keyPart, valuePart, am) ==
  IF am.ok
  THEN Call(advance(ctx),
            Frame((IF am.delimiter = <<"|", "|">> THEN "parseColumnarArray"
                   ELSE "parseTabularArray"),
                  ind, am.count, split(am.fields, ","), am.delimiter[1], 0))
  ELSE IF valuePart = <<>>
  THEN Call(advance(ctx), Frame("parseValue", ind + 1, 0, <<>>, "", 0))
  ELSE IF parsePrimitive(valuePart, ctx.references, ctx.currentLine + 1).err
  THEN Raise(ctx, f, parsePrimitive(valuePart, ctx.references, ctx.currentLine + 1).val)
  ELSE Go(advance(ctx), f)

\* The turn of parseValue on a line with the indent ind, trimmed its text; the
\* constants keyPart, valuePart and arrayMatch are bound to their values once.
lineTurn(ctx, f, ind, trimmed) ==
  IF trimmed = <<>> THEN Go(advance(ctx), f)
  ELSE IF ind # f.baseIndent THEN Exit(ctx, f)
  ELSE IF IndexOfChar(trimmed, ":") = 0
  THEN Raise(ctx, f, Throw("parse", ctx.currentLine + 1, ctx.currentLine).val)
  ELSE CHOOSE t \in
         {keyValueTurn(ctx, f, ind, keyPart, valuePart, am) :
            keyPart \in {SubStr(trimmed, 1, IndexOfChar(trimmed, ":") - 1)},
            valuePart \in {SubStr(trimmed, IndexOfChar(trimmed, ":") + 1, Len(trimmed))},
            am \in {arrayMatch(SubStr(trimmed, 1, IndexOfChar(trimmed, ":") - 1))}} :
         TRUE

\* One turn of the loop of parseValue.
valueTurn(ctx, f) ==
  IF ctx.currentLine >= Len(ctx.lines) THEN Exit(ctx, f)
  ELSE CHOOSE t \in
         {lineTurn(ctx, f, getIndentLevel(ctx.lines[ctx.currentLine + 1]), trimmed) :
            trimmed \in {trim(ctx.lines[ctx.currentLine + 1])}} :
         TRUE

\* The turn of the row reader on a row split into values, row what parseRow
\* makes of them.
rowTurn(ctx, f, values, row) ==
  IF Len(values) # Len(f.fields) /\ ctx.options.strict
  THEN Raise(ctx, f, Throw("parse", ctx.currentLine + 1, ctx.currentLine).val)
  ELSE IF row.err THEN Raise(ctx, f, row.val)
  ELSE Go(advance(ctx), [f EXCEPT !.i = @ + 1])

\* The turn of the row reader on the line whose text is trimmed.
rowLineTurn(ctx, f, trimmed) ==
  IF trimmed = <<>>
  THEN IF ctx.options.strict
       THEN Raise(ctx, f, Throw("parse", ctx.currentLine + 1, ctx.currentLine).val)
       ELSE Go(skipBlankRow(ctx), f)
  ELSE CHOOSE t \in
         {rowTurn(ctx, f, values, row) :
            values \in {splitByDelimiter(trimmed, f.delimiter)},
            row \in {parseRow(f.fields, splitByDelimiter(trimmed, f.delimiter),
                              ctx.references, ctx.currentLine, 1, <<>>)}} :
         TRUE

\* One turn of the row loop of parseTabularArray, its test i < count included.
tabularTurn(ctx, f) ==
  IF f.i >= f.count THEN Exit(ctx, f)
  ELSE IF ctx.currentLine >= Len(ctx.lines)
  THEN IF ctx.options.validate
       THEN Raise(ctx, f, Throw("validation", 0, ctx.currentLine).val)
       ELSE Exit(ctx, f)
  ELSE CHOOSE t \in
         {rowLineTurn(ctx, f, trimmed) : trimmed \in {trim(ctx.lines[ctx.currentLine + 1])}} :
         TRUE

\* The turn of the column reader on a line with the indent ind, m the match
\* of its text against the column pattern.
columnLineTurn(ctx, f, ind, trimmed, m) ==
  IF trimmed = <<>> THEN Go(advance(ctx), f)
  ELSE IF ind <= f.baseIndent \/ ~m.ok THEN Exit(ctx, f)
  ELSE CHOOSE t \in
         {IF col.err THEN Raise(ctx, f, col.val) ELSE Go(advance(ctx), f) :
            col \in {parseColumnData(m.data, f.count, ctx.references, ctx.currentLine)}} :
         TRUE

\* One turn of the column loop of parseColumnarArray.
columnarTurn(ctx, f) ==
  IF ctx.currentLine >= Len(ctx.lines) THEN Exit(ctx, f)
  ELSE CHOOSE t \in
         {columnLineTurn(ctx, f, getIndentLevel(ctx.lines[ctx.currentLine + 1]),
                         trimmed, m) :
            trimmed \in {trim(ctx.lines[ctx.currentLine + 1])},
            m \in {colMatch(trim(ctx.lines[ctx.currentLine + 1]))}} :
         TRUE

\* The turn the decoder takes next: that of the innermost pending call.
turnOf(ctx, stk) ==
  IF stk = <<>> THEN [act |-> "none", ctx |-> ctx, frame |-> <<>>, error |-> [t |-> "none"]]
  ELSE CASE stk[Len(stk)].fn = "parseReferences" -> referencesTurn(ctx, stk[Len(stk)])
         [] stk[Len(stk)].fn = "parseValue" -> valueTurn(ctx, stk[Len(stk)])
         [] stk[Len(stk)].fn = "parseTabularArray" -> tabularTurn(ctx, stk[Len(stk)])
         [] stk[Len(stk)].fn = "parseColumnarArray" -> columnarTurn(ctx, stk[Len(stk)])

(***************************************************************************)
(* The inputs: values handed to encode, and documents handed to decode.     *)
(***************************************************************************)
\* The longest tabular array and document, in rows.
MaxRows == 3

\* The largest number a value holds.
MaxNum == 12

None == [t |-> "none"]

Plain == <<"a", "b">>

Spaced == <<"a", " ", "b">>

DoubleSpaced == <<"a", " ", " ", "b">>

Coloned == <<"a", ":", "b">>

Piped == <<"a", "|", "b">>

LongSpaced == <<"E", "n", "g", " ", "D", "e", "p", "t", " ", "x">>

LongPlain == <<"E", "n", "g", "i", "n", "e", "e", "r", "i", "n", "g">>

StringPool ==
  {Plain, Spaced, DoubleSpaced, Coloned, Piped, <<>>, <<"_">>, <<"+">>, <<"-", "5">>,
   <<"7", "a">>, <<"a", "\"", "b">>, <<"a", "\\", "b">>, <<"a", ",", "b">>,
   <<"a", "\t", "b">>}

NumberPool == {0, 7, -3, MaxNum}

Prims ==
  {VNull, VBool(TRUE), VBool(FALSE)}
    \cup {VNum(n) : n \in NumberPool} \cup {VStr(x) : x \in StringPool}

\* Primitives every encoding of which decodes to itself when it stands alone.
SimplePrims == {VNull, VBool(TRUE), VNum(7), VStr(Plain)}

kK == <<"k">>

kM == <<"m">>

kU == <<"u">>

kA == <<"a">>

FlatObjects ==
  {VObj(<<Prop(kK, p)>>) : p \in Prims}
    \cup {VObj(<<Prop(kK, p), Prop(kM, q)>>) : p \in Prims, q \in SimplePrims}

NestedObjects ==
  {VObj(<<Prop(kU, VObj(<<Prop(kK, p)>>))>>) : p \in Prims}
    \cup {VObj(<<Prop(kU, VObj(<<Prop(kK, p), Prop(kM, q)>>)), Prop(kA, q)>>) :
            p \in SimplePrims, q \in SimplePrims}
    \cup {VObj(<<Prop(kU, VObj(<<Prop(kA, VObj(<<Prop(kK, p)>>))>>))>>) : p \in SimplePrims}
    \cup {VObj(<<Prop(kU, VObj(<<>>))>>), VObj(<<>>)}

InlineArrays ==
  {VObj(<<Prop(kA, VArr(<<p>>))>>) : p \in Prims}
    \cup {VObj(<<Prop(kA, VArr(<<p, q>>))>>) : p \in Prims, q \in SimplePrims}
    \cup {VObj(<<Prop(kA, VArr(<<p, q, p>>))>>) : p \in SimplePrims, q \in SimplePrims}

ListArrays ==
  {VObj(<<Prop(kA, VArr(<<>>))>>)}
    \cup {VObj(<<Prop(kA, VArr(<<VObj(<<Prop(kK, p)>>), VObj(<<Prop(kK, q)>>)>>))>>) :
            p \in SimplePrims, q \in SimplePrims}
    \cup {VObj(<<Prop(kA, VArr(<<VObj(<<Prop(kK, p)>>), VObj(<<Prop(kM, q)>>),
                                 VObj(<<Prop(kK, p)>>)>>))>>) :
            p \in SimplePrims, q \in SimplePrims}
    \cup {VObj(<<Prop(kA, VArr(<<p, VObj(<<Prop(kK, q)>>)>>))>>) :
            p \in SimplePrims, q \in SimplePrims}
    \cup {VObj(<<Prop(kA, VArr(<<VArr(<<p>>), VArr(<<>>)>>))>>) : p \in SimplePrims}

\* The uniform object arrays: row i holds k = i and a cell m.
TwoLined == <<"a", "\n", "b">>

CellPool ==
  {VStr(Plain), VStr(<<>>), VStr(Piped), VStr(Spaced), VStr(TwoLined), VBool(FALSE)}

UniformArrays ==
  UNION {{VObj(<<Prop(kA, VArr([i \in 1..n |->
                   VObj(<<Prop(kK, VNum(i)), Prop(kM, cells[i])>>)]))>>) :
            cells \in [1..n -> CellPool]} : n \in 3..MaxRows}

\* Arrays of three rows that repeat one long string.
RepeatingArrays ==
  {VObj(<<Prop(kA, VArr([i \in 1..3 |->
            VObj(<<Prop(kK, VNum(i)), Prop(kM, VStr(long))>>)]))>>) :
     long \in {LongSpaced, LongPlain}}

\* Arrays of ColumnarMinRows uniform rows: k counts up from 0, m repeats.
LargeArrays ==
  {VObj(<<Prop(kA, VArr([i \in 1..ColumnarMinRows |->
            VObj(<<Prop(kK, VNum(i - 1)), Prop(kM, tag[(i % 2) + 1])>>)]))>>) :
     tag \in {<<VStr(Plain), VStr(Plain)>>, <<VStr(Plain), VStr(<<"b">>)>>,
              <<VBool(TRUE), VBool(TRUE)>>}}

\* The count of distinct values in the field of a partly repeating array: fewer
\* than 70% of ColumnarMinRows and more than 30% of it.
PartlyDistinct == 600

\* Arrays of n rows of one field whose values repeat, but not in runs: row i
\* holds (i - 1) % PartlyDistinct.
PartlyRepeating(n) ==
  VObj(<<Prop(kA, VArr([i \in 1..n |-> VObj(<<Prop(kM, VNum((i - 1) % PartlyDistinct))>>)]))>>)

\* Arrays of n rows whose field m takes one value only.
FullyRepeating(n) ==
  VObj(<<Prop(kA, VArr([i \in 1..n |-> VObj(<<Prop(kM, VStr(Plain))>>)]))>>)

\* Arrays on either side of the columnar row threshold.
ThresholdArrays ==
  {PartlyRepeating(n) : n \in {ColumnarMinRows - 1, ColumnarMinRows}}
    \cup {FullyRepeating(n) : n \in {ColumnarMinRows - 1, ColumnarMinRows}}

\* The string of len characters "x".
Run(len) == [j \in 1..len |-> "x"]

\* An array that holds the string of len characters c times.
Repeated(c, len) == VObj(<<Prop(kA, VArr([i \in 1..c |-> VStr(Run(len))]))>>)

\* Occurrence counts and lengths on either side of each reference threshold.
ReferenceCases ==
  {<<3, 10>>, <<3, 9>>, <<2, 17>>, <<16, 3>>, <<16, 4>>, <<6, 5>>, <<5, 5>>, <<4, 7>>,
   <<4, 6>>}

\* Arrays of one repeated string, and one array of two repeated strings.
ReferenceArrays ==
  {Repeated(c[1], c[2]) : c \in ReferenceCases}
    \cup {VObj(<<Prop(kA, VArr([i \in 1..5 |-> VStr(Run(IF i <= 3 THEN 10 ELSE 17))]))>>)}

\* The string of len characters ch.
Fill(ch, len) == [j \in 1..len |-> ch]

\* Three strings, two of equal savings and a longer one, each three times, in
\* every order of first encounter.
MixedReferenceArrays ==
  {VObj(<<Prop(kA, VArr([i \in 1..9 |-> VStr(order[((i - 1) % 3) + 1])]))>>) :
     order \in {o \in [1..3 -> {Fill("p", 10), Fill("q", 10), Fill("r", 12)}] :
                  \A i \in 1..3 : \A j \in 1..3 : i # j => o[i] # o[j]}}

\* Strings of 10 characters that the general quoting rule quotes: one with a
\* comma, one with a leading digit, one with a bracket, one with a colon.
LongCommaed == <<"x", ",">> \o Fill("x", 8)

LongDigitLed == <<"1">> \o Fill("x", 9)

LongBracketed == <<"x", "[">> \o Fill("x", 8)

LongColoned == <<"x", ":">> \o Fill("x", 8)

\* Arrays that hold one such string three times.
QuotingArrays ==
  {VObj(<<Prop(kA, VArr([i \in 1..3 |-> VStr(str)]))>>) :
     str \in {LongCommaed, LongDigitLed, LongBracketed, LongColoned}}

\* Arrays whose estimated reference savings lie on either side of
\* RefSavingsThreshold: 50 and 52 for one string three times, 49 and 52 for
\* one string four times, 48 and 52 for two strings three times each.
EstimateArrays ==
  {Repeated(3, 28), Repeated(3, 29), Repeated(4, 19), Repeated(4, 20)}
    \cup {VObj(<<Prop(kA, VArr([i \in 1..6 |->
                   VStr(Fill((IF i % 2 = 0 THEN "p" ELSE "q"), len))]))>>) : len \in {15, 16}}

Commaed == <<"c", ",", "d">>

Tabbed == <<"e", "\t", "f">>

\* Arrays of three rows whose strings each hold one of the three delimiters.
DelimiterArrays ==
  {VObj(<<Prop(kA, VArr([i \in 1..3 |->
            VObj(<<Prop(kK, VNum(i)), Prop(kM, VStr(cells[i]))>>)]))>>) :
     cells \in [1..3 -> {Piped, Commaed, Tabbed}]}

KeyPool == {kK, <<"x">>, <<"i", "d">>, <<"a", " ", "b">>}

\* Objects of one property, under each key, that hold null, a boolean or a number.
PrimitiveObjects ==
  {VObj(<<Prop(key, p)>>) :
     key \in KeyPool,
     p \in {VNull, VBool(TRUE), VBool(FALSE)} \cup {VNum(n) : n \in NumberPool}}

TopLevelValues == SimplePrims \cup {VArr(<<VNum(1), VNum(2)>>)}

Delimiters == {"|", ",", "\t"}

DelimiterOptions == {[DefaultEncodeOptions EXCEPT !.delimiter = d] : d \in Delimiters}

ReferenceOptions ==
  {[DefaultEncodeOptions EXCEPT !.references = r] : r \in {"true", "false"}}

\* The encode calls: a value and the options it is encoded with.
EncodeInputs ==
  ((EstimateArrays \cup FlatObjects \cup NestedObjects \cup InlineArrays \cup ListArrays \cup UniformArrays
      \cup RepeatingArrays \cup LargeArrays \cup ThresholdArrays \cup DelimiterArrays
      \cup TopLevelValues
      \cup PrimitiveObjects)
     \X {DefaultEncodeOptions})
    \cup ((UniformArrays \cup RepeatingArrays) \X DelimiterOptions)
    \cup ((RepeatingArrays \cup ReferenceArrays \cup MixedReferenceArrays \cup QuotingArrays
             \cup EstimateArrays)
            \X ReferenceOptions)

\* The longest written document, in data rows.
MaxDocRows == 2

RefDefinition == <<"^", "1", "=">> \o LongPlain

CellTokens ==
  {<<"1">>, Plain, <<"+">>, <<"_">>, <<"^", "1">>, <<>>, <<"\"", "a", "|", "b", "\"">>}

TailTokens == {Plain, <<>>, <<"^", "1">>}

FieldNames == <<<<"x">>, <<"y">>>>

FirstRows(m) ==
  IF m = 1 THEN {<<c>> : c \in CellTokens}
  ELSE {<<c, d>> : c \in CellTokens, d \in TailTokens}

LaterRows(m) ==
  IF m = 1 THEN {<<c>> : c \in TailTokens} ELSE {<<Plain, d>> : d \in TailTokens}

DocRows(m, r) ==
  IF r = 0 THEN {<<>>}
  ELSE {[i \in 1..r |-> IF i = 1 THEN first ELSE later[i]] :
          first \in FirstRows(m), later \in [2..r -> LaterRows(m)]}

\* A tabular document: a header declaring count rows of the fields, then rows.
TabularDocs ==
  UNION {UNION {{[kind |-> "tabular", key |-> kA, count |-> n,
                  fields |-> SubSeq(FieldNames, 1, m), rows |-> rows, refs |-> d] :
                   rows \in DocRows(m, r), n \in 0..MaxDocRows, d \in BOOLEAN} :
                r \in 0..MaxDocRows} : m \in 1..2}

ShortRowFields == <<<<"x">>, <<"y">>, <<"z">>>>

ShortRowCells == {<<"1">>, Plain, <<"^", "1">>, <<"\"", "a", "|", "b", "\"">>}

\* Rows of one, two or all three cells for a table of three fields.
ShortRows ==
  {<<c>> : c \in ShortRowCells} \cup {<<c, Plain>> : c \in ShortRowCells}
    \cup {<<c, Plain, <<"7">>>> : c \in ShortRowCells}

\* Tabular documents of three fields, as many rows as declared, in which rows
\* may hold fewer cells than there are fields.
ShortRowDocs ==
  UNION {{[kind |-> "tabular", key |-> kA, count |-> r, fields |-> ShortRowFields,
           rows |-> rows, refs |-> d] :
            rows \in [1..r -> ShortRows], d \in BOOLEAN} : r \in 1..MaxDocRows}

QuotedColon == <<"\"", "c", ":", "d", "\"">>

KeyLine == <<"k", ":", "1">>

\* A table of the one field x: a header declaring count rows, the data rows
\* (one cell each, plain or quoted), then the lines that follow the table.
CountedDocs ==
  UNION {{[kind |-> "counted", key |-> kA, count |-> n, fields |-> <<<<"x">>>>,
           rows |-> rows, after |-> after] :
            rows \in [1..r -> {Plain, QuotedColon}], n \in 0..MaxDocRows,
            after \in {<<>>, <<KeyLine>>}} : r \in 0..MaxDocRows}

\* The values written after "-:" in a document of one dash line.
DashValues == {VNull, VBool(FALSE), VBool(TRUE), VNum(0), VNum(7), VStr(<<>>), VStr(Plain)}

\* A document of the one line "-:value", and the document without any line.
DashDocs == {[kind |-> "dash", item |-> v] : v \in DashValues} \cup {[kind |-> "blank"]}

\* Documents given line by line: key lines at the left margin, and key lines
\* indented under a line that opens no nested object or array.
LineDocs ==
  {[kind |-> "lines", lines |-> ls] :
     ls \in {<<KeyLine, <<"u", ":", "3">>>>,
             <<KeyLine, <<" ", " ", "m", ":", "2">>, <<"u", ":", "3">>>>,
             <<KeyLine, <<" ", " ", " ", " ", "m", ":", "2">>>>,
             <<<<" ", " ", "k", ":", "1">>>>}}

\* The text a primitive is written as in a document.
DocToken(v) ==
  CASE v.t = "null" -> <<"_">>
    [] v.t = "bool" -> IF v.v THEN <<"+">> ELSE <<"-">>
    [] v.t = "num" -> NumToStr(v.v)
    [] v.t = "str" -> v.v

DocLeaves == {VNum(7), VStr(Plain), VBool(TRUE)}

\* A document of nested objects, written from the object it denotes.
NestedDocs ==
  {[kind |-> "nested", tree |-> t] :
     t \in {VObj(<<Prop(kU, VObj(<<Prop(kK, p)>>))>>) : p \in DocLeaves}
             \cup {VObj(<<Prop(kU, VObj(<<Prop(kK, p), Prop(kM, q)>>)), Prop(kA, q)>>) :
                     p \in DocLeaves, q \in DocLeaves}
             \cup {VObj(<<Prop(kU, VObj(<<Prop(kA, VObj(<<Prop(kK, p)>>))>>))>>) :
                     p \in DocLeaves}}

\* A list-form array document: a header without fields, then one "-" entry per item.
ListDocs ==
  UNION {{[kind |-> "list", key |-> kA, items |-> items] :
            items \in [1..n -> DocLeaves]} : n \in 0..MaxDocRows}

Documents ==
  TabularDocs \cup ShortRowDocs \cup CountedDocs \cup NestedDocs \cup ListDocs \cup DashDocs
    \cup LineDocs

RECURSIVE RenderTree(_, _)
RenderTree(props, depth) ==
  Flatten([i \in 1..Len(props) |->
    IF isObject(props[i].v)
    THEN <<spaces(2 * depth) \o props[i].k \o <<":">>>> \o RenderTree(props[i].v.v, depth + 1)
    ELSE <<spaces(2 * depth) \o props[i].k \o <<":">> \o DocToken(props[i].v)>>])

Render(d) ==
  CASE d.kind = "tabular" ->
         join((IF d.refs THEN <<RefDefinition, <<>>>> ELSE <<>>)
                \o <<d.key \o <<"@">> \o NumToStr(d.count) \o <<"|">>
                       \o join(d.fields, <<",">>) \o <<":">>>>
                \o [i \in 1..Len(d.rows) |-> join(d.rows[i], <<"|">>)],
              <<"\n">>)
    [] d.kind = "counted" ->
         join(<<d.key \o <<"@">> \o NumToStr(d.count) \o <<"|">>
                  \o join(d.fields, <<",">>) \o <<":">>>>
                \o d.rows \o d.after,
              <<"\n">>)
    [] d.kind = "dash" ->
         <<"-", ":">> \o (IF d.item = VStr(<<>>) THEN <<"\"", "\"">> ELSE DocToken(d.item))
    [] d.kind = "blank" -> <<>>
    [] d.kind = "lines" -> join(d.lines, <<"\n">>)
    [] d.kind = "nested" -> join(RenderTree(d.tree.v, 0), <<"\n">>)
    [] d.kind = "list" ->
         join(<<d.key \o <<"@">> \o NumToStr(Len(d.items)) \o <<":">>>>
                \o [i \in 1..Len(d.items) |-> <<" ", " ", "-", ":">> \o DocToken(d.items[i])],
              <<"\n">>)

DecodeOptionChoices == [strict : BOOLEAN, validate : BOOLEAN]

\* Documents for the decoder taken turn by turn: a table with a blank row, a
\* columnar array whose column lines are indented, with a blank line among
\* them, reference definitions around a blank line with a use of an undefined
\* reference, and a table the lines run out under.
TurnDocs ==
  Documents \cup
  {[kind |-> "lines", lines |-> ls] :
     ls \in {<<<<"a", "@", "2", "|", "k", ",", "m", ":">>, <<"1", "|", "x">>, <<>>,
               <<"2", "|", "y">>, <<"u", ":", "3">>>>,
             <<<<"a", "@", "2", "|", "|", "k", ",", "m", ":">>,
               <<" ", " ", "|", "k", ":", "[", "1", ".", ".", "2", "]">>, <<>>,
               <<" ", " ", "|", "m", ":", "[", "+", ",", "-", "]">>, <<"u", ":", "3">>>>,
             <<<<"a", "@", "2", "|", "|", "k", ":">>,
               <<" ", " ", "|", "k", ":", "[", "^", "7", "=", "2", "]">>>>,
             <<<<"^", "1", "=", "a", "b", "c", "d", "e">>, <<>>,
               <<"^", "2", "=", "\"", "a", " ", "b", "\"">>, <<"k", ":", "^", "1">>,
               <<"m", ":", "^", "3">>>>,
             <<<<"a", "@", "3", "|", "k", ":">>, <<"1">>, <<>>>>,
             <<<<"k", ":">>, <<" ", "m", ":">>, <<" ", " ", "u", ":", "3">>, <<"x">>>>}}

(***************************************************************************)
(* The state machine: a value is encoded and the text decoded, a written    *)
(* document is decoded, or one CTFEncoder is constructed and its encode     *)
(* called several times; instance is the ReferenceManager of that encoder,  *)
(* calls the number of encode calls it has served.  In mode "analysis" a     *)
(* delimiterFrequency map is handed to chooseDelimiter: frequency is the    *)
(* map, chosen the delimiter returned.  In mode "manager" instance is a      *)
(* ReferenceManager of its own, built on, cleared and built on again.  In   *)
(* mode "column" value is a column of primitives, text what encodeColumn   *)
(* writes for it and decoded what parseColumnData reads from that.          *)
(***************************************************************************)
\* The longest column of the exhaustive columns.
MaxColumn == 4

ColumnPool == {VNum(0), VNum(1), VStr(Plain), VBool(TRUE), VNull}

\* Every column of up to MaxColumn values of the pool, and two columns of
\* seven values, six alike: the seventh last, and the seventh second.
Columns ==
  UNION {[1..n -> ColumnPool] : n \in 1..MaxColumn}
    \cup {[i \in 1..7 |-> VStr(IF i = at THEN <<"b">> ELSE Plain)] : at \in {2, 7}}

\* The encoder state encodeColumn runs in: no reference table.
ColumnEncoder ==
  [indent |-> DefaultIndent, usedDelimiter |-> "|", columnar |-> "auto",
   references |-> EmptyRM]

\* The highest tallied frequency of a delimiter.
MaxFrequency == 2

\* The delimiterFrequency maps, in the key order analyze creates them with.
FrequencyMaps ==
  {<<Prop("|", f[1]), Prop(",", f[2]), Prop("\t", f[3])>> :
     f \in [1..3 -> 0..MaxFrequency]}

\* The longest sequence of encode calls on one encoder.
MaxCalls == 3

\* The values handed to the encode calls of one encoder.
CallValues ==
  {Repeated(3, 10), Repeated(2, 17), Repeated(6, 5),
   VObj(<<Prop(kK, VNum(1))>>), VObj(<<Prop(kK, VStr(LongPlain))>>)}

Init ==
  /\ decoded = None
  /\ context = ParseContext(<<>>, DefaultDecodeOptions)
  /\ stack = <<>>
  /\ turn = turnOf(context, stack)
  /\ instance = EmptyRM
  /\ calls = 0
  /\ chosen = ""
  /\ \/ /\ mode = "value"
        /\ pc = "input"
        /\ \E c \in EncodeInputs : value = c[1] /\ options = c[2]
        /\ doc = None
        /\ dopts = DefaultDecodeOptions
        /\ text = <<>>
        /\ frequency = <<>>
     \/ /\ mode = "text"
        /\ pc = "text"
        /\ value = None
        /\ options = DefaultEncodeOptions
        /\ doc \in Documents
        /\ dopts \in DecodeOptionChoices
        /\ text = Render(doc)
        /\ frequency = <<>>
     \/ /\ mode = "instance"
        /\ pc = "ready"
        /\ value = None
        /\ options \in ReferenceOptions \cup {DefaultEncodeOptions}
        /\ doc = None
        /\ dopts = DefaultDecodeOptions
        /\ text = <<>>
        /\ frequency = <<>>
     \/ /\ mode = "manager"
        /\ pc = "open"
        /\ value = None
        /\ options = DefaultEncodeOptions
        /\ doc = None
        /\ dopts = DefaultDecodeOptions
        /\ text = <<>>
        /\ frequency = <<>>
     \/ /\ mode = "column"
        /\ pc = "column"
        /\ value \in {VArr(c) : c \in Columns}
        /\ options = DefaultEncodeOptions
        /\ doc = None
        /\ dopts = DefaultDecodeOptions
        /\ text = <<>>
        /\ frequency = <<>>
     \/ /\ mode = "analysis"
        /\ pc = "tallied"
        /\ value = None
        /\ options = DefaultEncodeOptions
        /\ doc = None
        /\ dopts = DefaultDecodeOptions
        /\ text = <<>>
        /\ frequency \in FrequencyMaps

\* encode(value, options)
Encode ==
  /\ pc = "input"
  /\ text' = encode(value, options)
  /\ pc' = "text"
  /\ UNCHANGED <<context, stack, turn, mode, value, options, doc, dopts, decoded, instance, calls, frequency, chosen>>

\* decode(text, dopts)
Decode ==
  /\ pc = "text"
  /\ decoded' = decode(text, dopts)
  /\ pc' = "done"
  /\ UNCHANGED <<context, stack, turn, mode, value, options, doc, dopts, text, instance, calls, frequency, chosen>>

\* The result of instance.encode(v) and the ReferenceManager it leaves behind.
CallResult(v) == CTFEncoder_encode(instance, options, v)

\* encoder.encode(v) on the encoder constructed with options.
EncodeOnInstance ==
  /\ pc = "ready"
  /\ calls < MaxCalls
  /\ \E v \in CallValues :
       /\ value' = v
       /\ text' = CallResult(v).text
       /\ instance' = CallResult(v).references
  /\ calls' = calls + 1
  /\ UNCHANGED <<context, stack, turn, pc, mode, options, doc, dopts, decoded, frequency, chosen>>

\* optimizer.chooseDelimiter(analysis) on an analysis with the map frequency.
ChooseDelimiter ==
  /\ pc = "tallied"
  /\ chosen' = chooseDelimiter([repeatedValues |-> <<>>, delimiterFrequency |-> frequency])
  /\ pc' = "chosen"
  /\ UNCHANGED <<context, stack, turn, mode, value, options, doc, dopts, text, decoded, instance, calls, frequency>>

\* manager.build(x): on a manager not yet cleared, or right after clear().
Build ==
  /\ \/ pc = "open" /\ calls < MaxCalls
     \/ pc = "cleared"
  /\ \E x \in CallValues :
       /\ value' = x
       /\ instance' = build(instance, x)
  /\ calls' = calls + 1
  /\ pc' = IF pc = "cleared" THEN "rebuilt" ELSE "open"
  /\ UNCHANGED <<context, stack, turn, mode, options, doc, dopts, text, decoded, frequency, chosen>>

\* manager.clear() after at least one build.
Clear ==
  /\ pc = "open"
  /\ calls > 0
  /\ instance' = clear(instance)
  /\ pc' = "cleared"
  /\ UNCHANGED <<context, stack, turn, mode, value, options, doc, dopts, text, decoded, calls, frequency, chosen>>

\* encodeColumn(values) on the column value.
EncodeColumn ==
  /\ pc = "column"
  /\ text' = encodeColumn(ColumnEncoder, value.v)
  /\ pc' = "columnText"
  /\ UNCHANGED <<context, stack, turn, mode, value, options, doc, dopts, decoded, instance, calls, frequency, chosen>>

\* What parseColumnData(data, count, context) returns, or the error it throws.
ColumnRead(data, count) ==
  LET r == parseColumnData(data, count, <<>>, 0)
  IN IF r.err THEN r.val ELSE VArr(r.val)

\* parseColumnData(text, count, context) without reference definitions.
ParseColumnData ==
  /\ pc = "columnText"
  /\ decoded' = ColumnRead(text, Len(value.v))
  /\ pc' = "columnDone"
  /\ UNCHANGED <<context, stack, turn, mode, value, options, doc, dopts, text, instance, calls, frequency, chosen>>

Next ==
  \/ Encode \/ Decode \/ EncodeOnInstance \/ ChooseDelimiter \/ Build \/ Clear
  \/ EncodeColumn \/ ParseColumnData

Spec == Init /\ [][Next]_vars

(***************************************************************************)
(* The decoder turn by turn: decode(text, dopts) is called on a document,   *)
(* and every step is one turn of the loop of the innermost pending call.    *)
(***************************************************************************)
TurnInit ==
  /\ mode = "turns"
  /\ pc = "running"
  /\ value = None
  /\ options = DefaultEncodeOptions
  /\ doc \in TurnDocs
  /\ dopts \in DecodeOptionChoices
  /\ text = Render(doc)
  /\ decoded = None
  /\ instance = EmptyRM
  /\ calls = 0
  /\ frequency = <<>>
  /\ chosen = ""
  /\ context = ParseContext(splitLines(text), dopts)
  /\ stack = decodeCalls
  /\ turn = turnOf(context, stack)

\* What the turn does to the context, the stack and the outcome of decode:
\* the last return ends decode, a throw ends it at once with the error.
Taken ==
  /\ pc = "running"
  /\ context' = turn.ctx
  /\ stack' = CASE turn.act = "go" -> [stack EXCEPT ![Len(stack)] = turn.frame]
                 [] turn.act = "call" -> Append(stack, turn.frame)
                 [] turn.act = "exit" -> SubSeq(stack, 1, Len(stack) - 1)
                 [] turn.act = "throw" -> <<>>
  /\ pc' = CASE turn.act = "throw" -> "thrown"
              [] turn.act = "exit" /\ Len(stack) = 1 -> "returned"
              [] OTHER -> "running"

\* The innermost pending call is fn, and it takes its turn.
TakeTurn(fn) ==
  /\ stack # <<>> /\ stack[Len(stack)].fn = fn
  /\ Taken
  /\ decoded' = IF turn.act = "throw" THEN turn.error ELSE decoded
  /\ turn' = turnOf(context', stack')
  /\ UNCHANGED <<mode, value, options, doc, dopts, text, instance, calls, frequency, chosen>>

ParseReferencesTurn == TakeTurn("parseReferences")

ParseValueTurn == TakeTurn("parseValue")

ParseTabularArrayTurn == TakeTurn("parseTabularArray")

ParseColumnarArrayTurn == TakeTurn("parseColumnarArray")

TurnNext ==
  \/ ParseReferencesTurn \/ ParseValueTurn \/ ParseTabularArrayTurn
  \/ ParseColumnarArrayTurn

\* decode runs on one thread without waiting on anything: while it has not
\* returned or thrown, its next turn is taken.
TurnSpec == TurnInit /\ [][TurnNext]_vars /\ WF_<<pc, context, stack>>(Taken)

(***************************************************************************)
(* The claims, each stated over the runs of Spec.                           *)
(***************************************************************************)
\* expect(a).toEqual(b): deep equality, object keys in any order.
RECURSIVE toEqual(_, _)
toEqual(a, b) ==
  /\ a.t = b.t
  /\ CASE a.t = "null" -> TRUE
       [] a.t \in {"bool", "num", "str"} -> a.v = b.v
       [] a.t = "arr" ->
            /\ Len(a.v) = Len(b.v)
            /\ \A i \in 1..Len(a.v) : toEqual(a.v[i], b.v[i])
       [] a.t = "obj" ->
            /\ Len(a.v) = Len(b.v)
            /\ \A i \in 1..Len(a.v) :
                 MapHas(b.v, a.v[i].k) /\ toEqual(a.v[i].v, MapGet(b.v, a.v[i].k))
       [] OTHER -> FALSE

\* decode threw the given error.
threw(x, kind, line) == x.t = "error" /\ x.kind = kind /\ x.line = line

\* A value has been encoded and its text decoded again.
RoundTripped == pc = "done" /\ mode = "value"

\* A written document has been decoded.
DocDecoded == pc = "done" /\ mode = "text"

\* The elements of a sequence.
Members(leaves) == {leaves[i] : i \in 1..Len(leaves)}

\* The strings that occur as leaves of x; none when x is a thrown error.
LeafSet(x) == IF x.t \in {"error", "none"} THEN {} ELSE Members(StringLeaves(x))

\* t.includes(sub)
ContainsText(t, sub) ==
  \E p \in 1..(Len(t) - Len(sub) + 1) : SubStr(t, p, p + Len(sub) - 1) = sub

\* The arrays an object holds directly, as sequences of elements.
ArraysOf(x) ==
  IF isObject(x) THEN {x.v[i].v.v : i \in {j \in 1..Len(x.v) : isArray(x.v[j].v)}}
  ELSE {}

\* C1: for every value, under the default options and under each explicit
\* delimiter '|', ',' and tab, decode(encode(v, opts)) equals v.
RoundTripAllValues ==
  (RoundTripped /\ options.references = "auto") => toEqual(decoded, value)

\* C1, the case reached: the top-level array [1, 2] comes back wrapped as
\* {data: [1, 2]}.
TopLevelArrayComesBackWrapped ==
  /\ RoundTripped
  /\ options = DefaultEncodeOptions
  /\ toEqual(value, VArr(<<VNum(1), VNum(2)>>))
  /\ toEqual(decoded, VObj(<<Prop(<<"d", "a", "t", "a">>, VArr(<<VNum(1), VNum(2)>>))>>))

\* C2: a "key:" line followed by lines indented two spaces deeper decodes to
\* the object built from those lines, recursively, and every object nested in
\* an object survives decode(encode(v)) under the default options.
NestedObjectsDecode ==
  /\ (DocDecoded /\ doc.kind = "nested") => toEqual(decoded, doc.tree)
  /\ (RoundTripped /\ options = DefaultEncodeOptions /\ isObject(value)
        /\ \E i \in 1..Len(value.v) : isObject(value.v[i].v))
       => toEqual(decoded, value)

\* C2, the case reached: the document "u:" / "  k:7" decodes to {u: null}.
NestedDocDecodesToNull ==
  /\ DocDecoded
  /\ doc.kind = "nested"
  /\ toEqual(doc.tree, VObj(<<Prop(kU, VObj(<<Prop(kK, VNum(7))>>))>>))
  /\ toEqual(decoded, VObj(<<Prop(kU, VNull)>>))

\* The reference table of a tabular document.
DocReferences(d) == IF d.refs THEN <<Prop(1, LongPlain)>> ELSE <<>>

\* parsePrimitive of cell j of row i of a tabular document.
CellValue(d, i, j) == parsePrimitive(d.rows[i][j], DocReferences(d), 0)

\* A header declaring as many rows as follow, every cell of which parses.
WellFormedTable(d) ==
  /\ d.kind = "tabular"
  /\ d.count = Len(d.rows)
  /\ \A i \in 1..Len(d.rows) :
       /\ Len(d.rows[i]) = Len(d.fields)
       /\ \A j \in 1..Len(d.fields) : ~CellValue(d, i, j).err

ExpectedTable(d) ==
  VObj(<<Prop(d.key,
              VArr([i \in 1..d.count |->
                      VObj([j \in 1..Len(d.fields) |->
                              Prop(d.fields[j], CellValue(d, i, j).val)])]))>>)

\* C3: a header k@n|f1,...,fm: followed by n rows of m pipe-separated cells
\* decodes to {k: [n objects]} in row order, field fj of row i being
\* parsePrimitive of cell j of row i, ^id cells resolved through the definitions.
TabularPipeDecode ==
  (DocDecoded /\ WellFormedTable(doc)) => toEqual(decoded, ExpectedTable(doc))

\* C3, the case reached: under the default options the row "ab|" of the table
\* a@1|x,y: raises a parse error on line 2.
RowWithEmptyLastCellThrows ==
  /\ DocDecoded
  /\ dopts = DefaultDecodeOptions
  /\ WellFormedTable(doc)
  /\ ~doc.refs
  /\ doc.rows = <<<<Plain, <<>>>>>>
  /\ threw(decoded, "parse", 2)

\* C4: for each delimiter d of '|', ',' and tab and every object holding an
\* array of 3 or more uniform primitive-valued objects,
\* decode(encode(v, {delimiter: d})) equals v.
AllDelimitersDecodable ==
  (RoundTripped /\ options.delimiter \in Delimiters
     /\ \E arr \in ArraysOf(value) : shouldUseTabular(arr))
    => toEqual(decoded, value)

\* C4, the case reached: three rows {k: i, m: "ab"} encoded with the comma
\* delimiter do not decode; the first row line raises a parse error.
CommaTableThrows ==
  /\ RoundTripped
  /\ options.delimiter = ","
  /\ \E arr \in ArraysOf(value) :
       /\ shouldUseTabular(arr)
       /\ \A i \in 1..Len(arr) : toEqual(MapGet(arr[i].v, kM), VStr(Plain))
  /\ threw(decoded, "parse", 2)

\* C5: "key@0:" decodes to an empty array under key, a list-form array
\* "key@n:" followed by n "-" entries decodes to the array of those n elements,
\* and the arrays encode emits in list form survive decode(encode(v)).
FieldlessHeadersDecode ==
  /\ (DocDecoded /\ doc.kind = "list")
       => toEqual(decoded, VObj(<<Prop(doc.key, VArr(doc.items))>>))
  /\ (RoundTripped /\ options = DefaultEncodeOptions
        /\ \E arr \in ArraysOf(value) :
             Len(arr) = 0 \/ (~shouldUseTabular(arr) /\ ~isAllPrimitives(arr)))
       => toEqual(decoded, value)

\* C5, the case reached: the document "a@0:" decodes to {"a@0": null}.
EmptyArrayHeaderDecodesToNull ==
  /\ DocDecoded
  /\ doc.kind = "list"
  /\ doc.items = <<>>
  /\ toEqual(decoded, VObj(<<Prop(kA \o <<"@", "0">>, VNull)>>))

\* C6: a non-empty array of primitives is rendered on one line as key:[v1 v2 ...]
\* and decode(encode({k: a})) equals {k: a}.
InlineArraysRoundTrip ==
  (RoundTripped /\ isObject(value) /\ Len(value.v) = 1
     /\ \E arr \in ArraysOf(value) : Len(arr) > 0 /\ isAllPrimitives(arr))
    => /\ SubStr(text, 1, Len(value.v[1].k) + 2) = value.v[1].k \o <<":", "[">>
       /\ endsWith(text, "]")
       /\ IndexOfChar(text, "\n") = 0
       /\ toEqual(decoded, value)

\* C6, the case reached: {a: ["a b"]} is rendered a:[a b] and comes back as
\* {a: ["a", "b"]}.
SpacedElementComesBackSplit ==
  /\ RoundTripped
  /\ toEqual(value, VObj(<<Prop(kA, VArr(<<VStr(Spaced)>>))>>))
  /\ text = <<"a", ":", "[", "a", " ", "b", "]">>
  /\ toEqual(decoded, VObj(<<Prop(kA, VArr(<<VStr(<<"a">>), VStr(<<"b">>)>>))>>))

\* encode renders an array of the value in columnar form.
RendersColumnar(x, opts) ==
  \E arr \in ArraysOf(x) : shouldUseColumnar([columnar |-> opts.columnar], arr)

\* C7: for every array that encode renders in columnar form, decoding the text
\* reconstructs exactly the n original rows, each with every declared field.
ColumnarRoundTrip ==
  (RoundTripped /\ RendersColumnar(value, options)) => toEqual(decoded, value)

\* C7, the case reached: a columnar text of ColumnarMinRows rows decodes to
\* that many objects without any field, and its column lines to the keys "|k"
\* and "|m" of the enclosing object.
ColumnarRowsComeBackEmpty ==
  /\ RoundTripped
  /\ RendersColumnar(value, options)
  /\ includesPair(text, "|", "|")
  /\ isObject(decoded)
  /\ MapHas(decoded.v, kA)
  /\ toEqual(MapGet(decoded.v, kA), VArr([i \in 1..ColumnarMinRows |-> VObj(<<>>)]))
  /\ MapHas(decoded.v, <<"|">> \o kK)
  /\ MapHas(decoded.v, <<"|">> \o kM)

\* C8: every string value containing ':', '|' or two consecutive spaces is
\* emitted inside double quotes and decodes back to exactly the original string,
\* as an object value, a tabular cell or an inline-array element.
QuotedStringsRecovered ==
  (RoundTripped /\ options = DefaultEncodeOptions)
    => \A str \in LeafSet(value) :
         (IndexOfChar(str, ":") # 0 \/ IndexOfChar(str, "|") # 0
            \/ includesPair(str, " ", " "))
           => ContainsText(text, quoted(str)) /\ str \in LeafSet(decoded)

\* C8, the case reached: {a: ["a  b"]} is emitted quoted and comes back as two
\* elements, neither of them the original string.
QuotedElementComesBackSplit ==
  /\ RoundTripped
  /\ toEqual(value, VObj(<<Prop(kA, VArr(<<VStr(DoubleSpaced)>>))>>))
  /\ ContainsText(text, quoted(DoubleSpaced))
  /\ \E arr \in ArraysOf(decoded) : Len(arr) = 2
  /\ DoubleSpaced \notin LeafSet(decoded)

\* C9: every string that encode emits without quotes decodes to the identical
\* string, of type string.
UnquotedStringsUnaltered ==
  (RoundTripped /\ options = DefaultEncodeOptions)
    => \A str \in LeafSet(value) : ~needsQuoting(str) => str \in LeafSet(decoded)

\* C9, the case reached: {k: "_"} is emitted as k:_ and comes back as {k: null}.
UnderscoreComesBackNull ==
  /\ RoundTripped
  /\ toEqual(value, VObj(<<Prop(kK, VStr(<<"_">>))>>))
  /\ text = <<"k", ":", "_">>
  /\ toEqual(decoded, VObj(<<Prop(kK, VNull)>>))

\* Every occurrence of str in t stands between double quotes.
EveryOccurrenceQuoted(t, str) ==
  \A p \in 1..(Len(t) - Len(str) + 1) :
    SubStr(t, p, p + Len(str) - 1) = str
      => /\ p > 1 /\ t[p - 1] = "\""
         /\ p + Len(str) <= Len(t) /\ t[p + Len(str)] = "\""

\* C10: encode renders every string value that contains a space inside double
\* quotes, as a value and as a reference definition.
SpacedStringsQuoted ==
  (mode = "value" /\ pc # "input")
    => \A str \in LeafSet(value) :
         IndexOfChar(str, " ") # 0
           => ContainsText(text, quoted(str)) /\ EveryOccurrenceQuoted(text, str)

\* C10, the case reached: with references on, the repeated string "Eng Dept x"
\* is defined as ^1=Eng Dept x, without quotes.
SpacedDefinitionUnquoted ==
  /\ mode = "value"
  /\ pc # "input"
  /\ options.references = "true"
  /\ LongSpaced \in LeafSet(value)
  /\ SubStr(text, 1, 3 + Len(LongSpaced)) = <<"^", "1", "=">> \o LongSpaced

\* s is the decimal rendering of the integer n: a minus sign for a negative
\* number, then its digits without a leading zero, and nothing else.
PlainDecimal(s, n) ==
  /\ n < 0 => startsWith(s, "-")
  /\ LET body == IF n < 0 THEN Tail(s) ELSE s
     IN /\ body # <<>>
        /\ \A i \in 1..Len(body) : body[i] \in Digits
        /\ Len(body) > 1 => body[1] # "0"
        /\ DigitsToNat(body, 0) = (IF n < 0 THEN -n ELSE n)

\* C11: for every key x, encode({x: null}) is "x:_", encode({x: true}) is "x:+",
\* encode({x: false}) is "x:-", and encode({x: n}) is "x:" followed by the plain
\* decimal rendering of n.
PrimitiveMapping ==
  (mode = "value" /\ pc # "input" /\ isObject(value) /\ Len(value.v) = 1
     /\ value.v[1].v.t \in {"null", "bool", "num"})
    => LET x == value.v[1].k
           p == value.v[1].v
           rest == SubStr(text, Len(x) + 2, Len(text))
       IN /\ SubStr(text, 1, Len(x) + 1) = x \o <<":">>
          /\ CASE p.t = "null" -> rest = <<"_">>
               [] p.t = "bool" -> rest = (IF p.v THEN <<"+">> ELSE <<"-">>)
               [] p.t = "num" -> PlainDecimal(rest, p.v)

\* C11, the case reached: encode({id: -3}) is "id:-3".
NegativeNumberRendered ==
  /\ mode = "value"
  /\ pc # "input"
  /\ toEqual(value, VObj(<<Prop(<<"i", "d">>, VNum(-3))>>))
  /\ text = <<"i", "d", ":", "-", "3">>

\* The elements are objects with identical key sets and only primitive values.
UniformRows(arr) ==
  /\ \A i \in 1..Len(arr) : isObject(arr[i])
  /\ \A i \in 1..Len(arr) :
       /\ {arr[i].v[j].k : j \in 1..Len(arr[i].v)} = {arr[1].v[j].k : j \in 1..Len(arr[1].v)}
       /\ \A j \in 1..Len(arr[i].v) : isPrimitive(arr[i].v[j].v)

\* C12: an array of exactly 2 uniform objects is rendered in list form, "key@2:"
\* with two nested "-" entries, and every array of 3 or more objects with
\* identical key sets and only primitive values is rendered as a header
\* key@n<delim>field1,field2,...: followed by exactly one row line per element.
TabularThreshold ==
  (mode = "value" /\ pc # "input" /\ isObject(value) /\ Len(value.v) = 1
     /\ isArray(value.v[1].v) /\ ~startsWith(text, "^"))
    => LET key == value.v[1].k
           arr == value.v[1].v.v
           lines == split(text, "\n")
       IN /\ (Len(arr) = 2 /\ UniformRows(arr))
               => /\ lines[1] = key \o <<"@", "2", ":">>
                  /\ Cardinality({i \in 2..Len(lines) : trim(lines[i]) = <<"-", ":">>}) = 2
          /\ (Len(arr) >= 3 /\ UniformRows(arr))
               => /\ Len(lines) = 1 + Len(arr)
                  /\ \E d \in Delimiters :
                       lines[1] = key \o <<"@">> \o NumToStr(Len(arr)) \o <<d>>
                                    \o join(ObjectKeys(arr[1].v), <<",">>) \o <<":">>

\* C12, the case reached: three rows, the first of which holds the string
\* "a", line break, "b", are rendered as a header and four more lines.
RowWithLineBreakSpansLines ==
  /\ mode = "value"
  /\ pc # "input"
  /\ options = DefaultEncodeOptions
  /\ \E arr \in ArraysOf(value) :
       /\ Len(arr) = 3
       /\ UniformRows(arr)
       /\ toEqual(MapGet(arr[1].v, kM), VStr(TwoLined))
       /\ \A i \in 2..3 : toEqual(MapGet(arr[i].v, kM), VStr(Plain))
  /\ Len(split(text, "\n")) = 5

\* A line of the text is a column line in run-length form, |key:["v"=n,...], or
\* in range form, |key:[a..b].
HasCompactColumn(t) ==
  \E i \in 1..Len(split(t, "\n")) :
    LET line == trim(split(t, "\n")[i])
        at == IndexOfChar(line, ":")
        body == SubStr(line, at + 1, Len(line))
    IN /\ startsWith(line, "|")
       /\ at > 0
       /\ startsWith(body, "[") /\ endsWith(body, "]")
       /\ \/ SubStr(body, 1, 2) = <<"[", "\"">> /\ ContainsText(body, <<"\"", "=">>)
          \/ ContainsText(body, <<".", ".">>) /\ ~ContainsText(body, <<",">>)

\* Some field of the rows has more than 30% value repetition.
RepeatsOverThreshold(arr) ==
  \E j \in 1..Len(arr[1].v) :
    LET key == arr[1].v[j].k
        seen == {MapGet(arr[i].v, key) : i \in 1..Len(arr)}
    IN 10 * (Len(arr) - Cardinality(seen)) > 3 * Len(arr)

\* The header line of the one array of the text declares the columnar form.
HasColumnarHeader(t) == ContainsText(split(t, "\n")[1], <<"|", "|">>)

\* C13: every array of ColumnarMinRows or more uniform primitive-valued objects
\* in which some field has more than 30% value repetition is rendered with a
\* "||" header and at least one column in run-length or range form, and the
\* same array of ColumnarMinRows - 1 rows is not rendered in columnar form.
ColumnarThreshold ==
  (mode = "value" /\ pc # "input" /\ options = DefaultEncodeOptions
     /\ isObject(value) /\ Len(value.v) = 1 /\ isArray(value.v[1].v)
     /\ Len(value.v[1].v.v) >= ColumnarMinRows - 1 /\ UniformRows(value.v[1].v.v)
     /\ RepeatsOverThreshold(value.v[1].v.v))
    => IF Len(value.v[1].v.v) >= ColumnarMinRows
       THEN HasColumnarHeader(text) /\ HasCompactColumn(text)
       ELSE ~HasColumnarHeader(text)

\* C13, the case reached: ColumnarMinRows rows whose one field takes
\* PartlyDistinct values are rendered under a "||" header with the column
\* written value by value.
PartlyRepeatingColumnWrittenOut ==
  /\ mode = "value" /\ pc # "input"
  /\ value = PartlyRepeating(ColumnarMinRows)
  /\ HasColumnarHeader(text)
  /\ SubStr(split(text, "\n")[2], 1, 10) = <<"|", "m", ":", "[", "0", ",", "1", ",", "2", ",">>
  /\ Len(split(text, "\n")) = 2

\* The strings that the reference definitions at the head of the text define,
\* as written after "^id=".
DefinedTexts(t) ==
  LET lines == split(t, "\n")
      stop == IF \E i \in 1..Len(lines) : lines[i] = <<>>
              THEN MinOf({i \in 1..Len(lines) : lines[i] = <<>>})
              ELSE 1
  IN IF ~startsWith(t, "^") THEN {}
     ELSE {SubStr(lines[i], IndexOfChar(lines[i], "=") + 1, Len(lines[i])) :
             i \in 1..(stop - 1)}

\* The number of times str occurs as a string value of x.
CountIn(leaves, str) == Cardinality({i \in 1..Len(leaves) : leaves[i] = str})

Occurrences(x, str) == CountIn(StringLeaves(x), str)

SourceCount(arr, d) ==
  SumSeq([i \in 1..Len(arr) |->
            SumSeq([j \in 1..Len(arr[i].v) |->
                      CountChar(arr[i].v[j].k, d)
                        + (IF arr[i].v[j].v.t = "str" THEN CountChar(arr[i].v[j].v.v, d)
                           ELSE 0)])])

\* C15: with the delimiter left to encode, whenever "|", "," and tab occur
\* equally often in the data of a tabular array, none of them at all included,
\* its header names "|" as the delimiter.
AutoDelimiterPrefersPipe ==
  (mode = "value" /\ pc # "input" /\ options.delimiter = "auto"
     /\ isObject(value) /\ Len(value.v) = 1 /\ isArray(value.v[1].v)
     /\ Len(value.v[1].v.v) >= 3 /\ UniformRows(value.v[1].v.v)
     /\ ~RendersColumnar(value, options)
     /\ SourceCount(value.v[1].v.v, "|") = SourceCount(value.v[1].v.v, ",")
     /\ SourceCount(value.v[1].v.v, "|") = SourceCount(value.v[1].v.v, "\t"))
    => \E i \in 1..Len(split(text, "\n")) :
         split(text, "\n")[i]
           = value.v[1].k \o <<"@">> \o NumToStr(Len(value.v[1].v.v)) \o <<"|">>
               \o join(getCommonKeys(value.v[1].v.v), <<",">>) \o <<":">>

\* C15, the case reached: three rows whose strings hold one "|", one "," and
\* one tab are written under a header that names tab as the delimiter.
OneOfEachDelimiterPicksTab ==
  /\ mode = "value" /\ pc # "input" /\ options = DefaultEncodeOptions
  /\ value = VObj(<<Prop(kA, VArr(<<VObj(<<Prop(kK, VNum(1)), Prop(kM, VStr(Piped))>>),
                                     VObj(<<Prop(kK, VNum(2)), Prop(kM, VStr(Commaed))>>),
                                     VObj(<<Prop(kK, VNum(3)), Prop(kM, VStr(Tabbed))>>)>>))>>)
  /\ split(text, "\n")[1] = <<"a", "@", "3", "\t", "k", ",", "m", ":">>

\* A tabular document with as many rows as declared, every cell of which
\* parses, and with a row of fewer cells than there are fields.
HasShortRow(d) ==
  /\ d.kind = "tabular"
  /\ d.count = Len(d.rows)
  /\ \A i \in 1..Len(d.rows) :
       /\ Len(d.rows[i]) \in 1..Len(d.fields)
       /\ \A j \in 1..Len(d.rows[i]) : ~CellValue(d, i, j).err
  /\ \E i \in 1..Len(d.rows) : Len(d.rows[i]) < Len(d.fields)

\* The rows of the document with every missing trailing field an empty string.
PaddedTable(d) ==
  VObj(<<Prop(d.key,
              VArr([i \in 1..d.count |->
                      VObj([j \in 1..Len(d.fields) |->
                              Prop(d.fields[j],
                                   IF j <= Len(d.rows[i]) THEN CellValue(d, i, j).val
                                   ELSE VStr(<<>>))])]))>>)

\* C16: a tabular row with fewer cells than the header has fields raises a
\* parse error when strict is true; when strict is false the row is accepted,
\* each missing trailing field set to the empty string and the cells present
\* decoded as in any row.
ShortRowHandling ==
  (DocDecoded /\ HasShortRow(doc))
    => IF dopts.strict THEN decoded.t = "error" /\ decoded.kind = "parse"
       ELSE toEqual(decoded, PaddedTable(doc))

\* C16, the case reached: with strict false the rows "^1" and "1|ab" of a
\* table of fields x,y,z decode to {x: the referenced string, y: "", z: ""}
\* and {x: 1, y: "ab", z: ""}.
ShortRowsPadded ==
  /\ DocDecoded /\ ~dopts.strict /\ doc.kind = "tabular" /\ doc.refs
  /\ doc.rows = <<<<<<"^", "1">>>>, <<<<"1">>, Plain>>>>
  /\ decoded
       = VObj(<<Prop(kA, VArr(<<VObj(<<Prop(<<"x">>, VStr(LongPlain)),
                                       Prop(<<"y">>, VStr(<<>>)),
                                       Prop(<<"z">>, VStr(<<>>))>>),
                                VObj(<<Prop(<<"x">>, VNum(1)),
                                       Prop(<<"y">>, VStr(Plain)),
                                       Prop(<<"z">>, VStr(<<>>))>>)>>))>>)

\* A tabular document that ends before the declared count of rows: every row
\* it has splits into one cell per field and every cell parses.
EndsEarly(d) ==
  /\ d.kind = "tabular"
  /\ d.count > Len(d.rows)
  /\ \A i \in 1..Len(d.rows) :
       /\ Len(d.rows[i]) = Len(d.fields)
       /\ d.rows[i][Len(d.fields)] # <<>>
       /\ \A j \in 1..Len(d.fields) : ~CellValue(d, i, j).err

\* The rows present in the document, under its key.
RowsRead(d) ==
  VObj(<<Prop(d.key,
              VArr([i \in 1..Len(d.rows) |->
                      VObj([j \in 1..Len(d.fields) |->
                              Prop(d.fields[j], CellValue(d, i, j).val)])]))>>)

\* C17: when the input ends before the declared count of rows has been read,
\* decode raises a validation error exactly when strict and validate are both
\* true; under every other choice of the two it raises nothing and returns
\* the rows read so far.
ValidationGating ==
  (DocDecoded /\ EndsEarly(doc))
    => IF dopts.strict /\ dopts.validate
       THEN decoded.t = "error" /\ decoded.kind = "validation"
       ELSE toEqual(decoded, RowsRead(doc))

\* C17, the case reached: with strict false and validate true, a table that
\* declares 2 rows and holds 1 raises a validation error.
LenientDecodeRaisesValidation ==
  /\ DocDecoded /\ EndsEarly(doc)
  /\ ~dopts.strict /\ dopts.validate
  /\ doc.count = 2 /\ Len(doc.rows) = 1
  /\ decoded.t = "error" /\ decoded.kind = "validation"

\* C18: with strict and validate both true, decoding a table whose data rows
\* are fewer than the declared count and followed by other lines, or more
\* than the declared count, raises an error.
DeclaredCountsChecked ==
  (DocDecoded /\ doc.kind = "counted" /\ dopts.strict /\ dopts.validate
     /\ \/ Len(doc.rows) < doc.count /\ doc.after # <<>>
        \/ Len(doc.rows) > doc.count)
    => decoded.t = "error"

\* C18, the case reached: under the default options the header a@2|x: with
\* the one row "ab" and the line k:1 after it decodes, without an error, to
\* two rows, the second holding the text of the line.
FollowingLineReadAsRow ==
  /\ DocDecoded /\ doc.kind = "counted" /\ dopts = DefaultDecodeOptions
  /\ doc.count = 2 /\ doc.rows = <<Plain>> /\ doc.after = <<KeyLine>>
  /\ decoded = VObj(<<Prop(kA, VArr(<<VObj(<<Prop(<<"x">>, VStr(Plain))>>),
                                      VObj(<<Prop(<<"x">>, VStr(KeyLine))>>)>>))>>)

\* C19: every error decode raises carries the 1-based number of a line of the
\* input, the line at fault (an error thrown without a line number is
\* modelled with line 0); an error is raised in place of any value.
ErrorsCarryLine ==
  (DocDecoded /\ decoded.t = "error") => decoded.line \in 1..Len(split(text, "\n"))

\* C19, the case reached: under the default options the row "^1" of a table
\* without a definition of ^1 raises a parse error that names no line.
UndefinedReferenceWithoutLine ==
  /\ DocDecoded /\ dopts = DefaultDecodeOptions
  /\ doc.kind = "tabular" /\ ~doc.refs /\ doc.count = 1
  /\ doc.rows = <<<<<<"^", "1">>>>>>
  /\ threw(decoded, "parse", 0)

\* C20: after every encode call on one CTFEncoder, whatever calls came before
\* it, the text returned is the text a newly constructed encoder with the
\* same options returns for the value.
NoStateSurvivesEncode ==
  (mode = "instance" /\ calls > 0) => text = encode(value, options)

\* C20, the case reached: on an encoder that has encoded three occurrences of
\* a string of 10 characters with references on, the next call, encode({k: 1}),
\* returns two definitions of the earlier string ahead of k:1.
EarlierDefinitionReemitted ==
  /\ mode = "instance" /\ calls = 2 /\ options.references = "true"
  /\ value = VObj(<<Prop(kK, VNum(1))>>)
  /\ text = <<"^", "1", "=">> \o Run(10) \o <<"\n", "^", "2", "=">> \o Run(10)
              \o <<"\n", "\n", "k", ":", "1">>

\* The reference definitions at the head of the text, in the order written.
DefinitionLines(t) ==
  LET lines == split(t, "\n")
      stop == IF \E i \in 1..Len(lines) : lines[i] = <<>>
              THEN MinOf({i \in 1..Len(lines) : lines[i] = <<>>})
              ELSE 1
  IN IF ~startsWith(t, "^") THEN <<>> ELSE SubSeq(lines, 1, stop - 1)

\* The text a definition line defines, as written after "=".
DefinedText(line) == SubStr(line, IndexOfChar(line, "=") + 1, Len(line))

\* The position at which str is first met in the traversal of x.
FirstIn(leaves, str) == MinOf({i \in 1..Len(leaves) : leaves[i] = str})

FirstMet(x, str) == FirstIn(StringLeaves(x), str)

\* The savings of c occurrences of a string of len characters.
SavingsOf(c, len) == c * len - (2 * c + len + 3)

\* The leaf of x that a definition line defines.
DefinedLeaf(x, line) == CHOOSE str \in LeafSet(x) : escapeValue(str) = DefinedText(line)

\* C21: the definitions built on an empty ReferenceManager carry the IDs
\* 1, 2, 3, ... in order of descending savings, strings of equal savings in the
\* order in which the traversal of the value first met them.
ReferenceIdOrder ==
  (mode = "value" /\ pc # "input" /\ options.references = "true")
    => LET defs == DefinitionLines(text)
           leaf(i) == DefinedLeaf(value, defs[i])
           sv(i) == SavingsOf(Occurrences(value, leaf(i)), Len(leaf(i)))
       IN /\ \A i \in 1..Len(defs) :
               SubStr(defs[i], 1, IndexOfChar(defs[i], "=")) = <<"^">> \o NumToStr(i) \o <<"=">>
          /\ \A i \in 1..Len(defs) : \A j \in (i + 1)..Len(defs) :
               \/ sv(i) > sv(j)
               \/ sv(i) = sv(j) /\ FirstMet(value, leaf(i)) < FirstMet(value, leaf(j))

\* C21, the case reached: of the strings met in the order q, p, r, the longer
\* r is defined as ^1 and q and p, of equal savings, as ^2 and ^3.
LongestFirstThenEncounterOrder ==
  /\ mode = "value" /\ pc # "input" /\ options.references = "true"
  /\ DefinitionLines(text)
       = << <<"^", "1", "=">> \o Fill("r", 12), <<"^", "2", "=">> \o Fill("q", 10),
            <<"^", "3", "=">> \o Fill("p", 10) >>

\* C22: for every string a reference is built for, the definition line is
\* "^id=" followed by exactly escapeString of the string: it is quoted in the
\* definition exactly when needsQuoting would quote it as a value.
DefinitionsUseGeneralQuoting ==
  (mode = "value" /\ pc # "input" /\ options.references = "true")
    => \A str \in LeafSet(value) :
         (/\ Occurrences(value, str) >= 3
          /\ Len(str) >= 5
          /\ SavingsOf(Occurrences(value, str), Len(str)) >= 10)
           => \E i \in 1..Len(DefinitionLines(text)) :
                DefinitionLines(text)[i] = <<"^">> \o NumToStr(i) \o <<"=">> \o escapeString(str)

\* C22, the case reached: the repeated string "x,xxxxxxxx", which needsQuoting
\* quotes, is defined as ^1=x,xxxxxxxx, without quotes.
CommaDefinitionUnquoted ==
  /\ mode = "value" /\ pc # "input" /\ options.references = "true"
  /\ needsQuoting(LongCommaed)
  /\ LeafSet(value) = {LongCommaed}
  /\ DefinitionLines(text) = << <<"^", "1", "=">> \o LongCommaed >>

\* What a string of len characters that occurs c times adds to the estimate.
EstimateTerm(c, len) ==
  IF c >= 3 /\ len >= 5 /\ (c - 1) * len - 2 * c > 0 THEN (c - 1) * len - 2 * c ELSE 0

\* The sum of the terms of the distinct strings strs among leaves.
EstimateIn(leaves, strs) ==
  LET order == SetToSeqBy(strs, [str \in strs |-> FirstIn(leaves, str)])
  IN SumSeq([i \in 1..Len(order) |-> EstimateTerm(CountIn(leaves, order[i]), Len(order[i]))])

\* The sum, over the distinct strings of x with at least 3 occurrences and at
\* least 5 characters, of (c - 1) * len - 2 * c where that is positive.
EstimateOf(x) == EstimateIn(StringLeaves(x), LeafSet(x))

\* Some string of x qualifies for a reference once the table is built.
HasEligibleString(x) ==
  \E str \in LeafSet(x) :
    /\ Occurrences(x, str) >= 3
    /\ Len(str) >= 5
    /\ SavingsOf(Occurrences(x, str), Len(str)) >= 10

DashUnwrapped ==
  /\ (DocDecoded /\ doc.kind = "dash") => toEqual(decoded, doc.item)
  /\ (DocDecoded /\ doc.kind = "blank") => toEqual(decoded, VNull)

\* C24, the case reached: the document "-:0" decodes to the object {"-": 0}.
DashZeroStaysWrapped ==
  /\ DocDecoded /\ doc.kind = "dash" /\ doc.item = VNum(0)
  /\ text = <<"-", ":", "0">>
  /\ decoded = VObj(<<Prop(<<"-">>, VNum(0))>>)

\* The least of the three tallied frequencies.
LeastFrequency == MinOf({frequency[i].v : i \in 1..3})

\* C25: chooseDelimiter returns a delimiter whose tallied frequency is the
\* least of the three; when the three are equal it returns "|", and among
\* delimiters tied for the least it prefers "|" to tab and tab to ",".
DelimiterPreference ==
  pc = "chosen"
    => /\ MapGet(frequency, chosen) = LeastFrequency
       /\ MapGet(frequency, "|") = LeastFrequency => chosen = "|"
       /\ (MapGet(frequency, "\t") = LeastFrequency /\ MapGet(frequency, "|") # LeastFrequency)
            => chosen = "\t"

\* C25, the case reached: with "|" tallied once and "," and tab never,
\* chooseDelimiter returns ",".
CommaChosenOverTab ==
  /\ pc = "chosen"
  /\ frequency = <<Prop("|", 1), Prop(",", 0), Prop("\t", 0)>>
  /\ chosen = ","

\* The strings of the values handed to build.
BuiltStrings == UNION {LeafSet(x) : x \in CallValues}

\* C26: after any sequence of build calls, clear() leaves count 0, no
\* definitions and no reference for any string, and the build(x) that follows
\* leaves exactly the table build(x) leaves on a new manager: the same
\* strings, the same IDs from 1, the same definitions.
ClearResets ==
  /\ pc = "cleared"
       => /\ referenceCount(instance) = 0
          /\ getDefinitions(instance) = <<>>
          /\ \A str \in BuiltStrings : ~hasReference(instance, str)
  /\ pc = "rebuilt"
       => /\ instance.references = build(EmptyRM, value).references
          /\ getDefinitions(instance) = getDefinitions(build(EmptyRM, value))
          /\ \A str \in BuiltStrings :
               hasReference(instance, str)
                 <=> (/\ Occurrences(value, str) >= 3
                      /\ Len(str) >= 5
                      /\ SavingsOf(Occurrences(value, str), Len(str)) >= 10)

\* C26, the case reached: after two builds, a clear and the build of a string
\* of 10 characters held three times, the manager defines that string, and
\* nothing else, as ^1.
RebuiltFromEmpty ==
  /\ pc = "rebuilt" /\ calls = 3
  /\ value = Repeated(3, 10)
  /\ getDefinitions(instance) = << <<"^", "1", "=">> \o Run(10) >>

\* C27: for every column of primitive values, parseColumnData of the text
\* encodeColumn writes (range, run-length or plain list) is the column itself:
\* as long, the same values in the same row order, each of its own type.
ColumnInvertible ==
  pc = "columnDone" => toEqual(decoded, value)

\* C27, the case reached: the column of four true is written ["true"=4] and
\* read back as four strings "true".
BooleansComeBackAsStrings ==
  /\ pc = "columnDone"
  /\ value = VArr([i \in 1..4 |-> VBool(TRUE)])
  /\ text = <<"[", "\"", "t", "r", "u", "e", "\"", "=", "4", "]">>
  /\ decoded = VArr([i \in 1..4 |-> VStr(<<"t", "r", "u", "e">>)])

\* The lines of the text that decode left unread and that are not blank.
LinesNotConsumed ==
  {i \in (decodeCursor(text, dopts) + 1)..Len(split(text, "\n")) :
     trim(split(text, "\n")[i]) # <<>>}

\* C28: in strict mode, when decode returns a value every line of the input
\* that is not blank has been consumed; a line indented deeper than its level
\* under no header makes decode fail, it is not dropped with the lines after it.
IndentationValidated ==
  (DocDecoded /\ dopts.strict /\ decoded.t # "error") => LinesNotConsumed = {}

\* C28, the case reached: under the default options the lines k:1, an
\* indented m:2 and u:3 decode to {k: 1}; the second and third line are unread.
IndentedLineAndRestDropped ==
  /\ DocDecoded /\ dopts = DefaultDecodeOptions /\ doc.kind = "lines"
  /\ Len(doc.lines) = 3
  /\ decoded = VObj(<<Prop(kK, VNum(1))>>)
  /\ LinesNotConsumed = {2, 3}

\* C29: for every array that encode renders in tabular form, each emitted row,
\* split by splitByDelimiter on the emitted delimiter, yields exactly as many
\* cells as the header declares fields, and decoding a text whose header the
\* decoder reads as tabular (delimiter "|") under the default (strict) options
\* raises no parse error.
RowSplittingAgrees ==
  (mode = "value" /\ pc # "input" /\ isObject(value) /\ Len(value.v) = 1
     /\ isArray(value.v[1].v) /\ ~startsWith(text, "^") /\ ~HasColumnarHeader(text)
     /\ Len(value.v[1].v.v) >= 3 /\ UniformRows(value.v[1].v.v))
    => LET key == value.v[1].k
           arr == value.v[1].v.v
           lines == split(text, "\n")
           delimiter == lines[1][Len(key) + 1 + Len(NumToStr(Len(arr))) + 1]
       IN /\ \A i \in 2..Len(lines) :
               Len(splitByDelimiter(lines[i], delimiter)) = Len(arr[1].v)
          /\ (pc = "done" /\ delimiter = "|")
               => ~(decoded.t = "error" /\ decoded.kind = "parse")

\* C29, the case reached: of three rows {k, m} the last holds the empty string
\* in m; it is written "3|", which splits into the one cell "3" under a header
\* of two fields, and decoding the text raises a parse error on line 4.
EmptyLastFieldLosesItsCell ==
  /\ RoundTripped
  /\ options = DefaultEncodeOptions
  /\ toEqual(value, VObj(<<Prop(kA, VArr([i \in 1..3 |->
                 VObj(<<Prop(kK, VNum(i)),
                        Prop(kM, IF i = 3 THEN VStr(<<>>) ELSE VStr(Plain))>>)]))>>))
  /\ split(text, "\n")[1] = <<"a", "@", "3", "|", "k", ",", "m", ":">>
  /\ split(text, "\n")[4] = <<"3", "|">>
  /\ splitByDelimiter(split(text, "\n")[4], "|") = <<<<"3">>>>
  /\ threw(decoded, "parse", 4)

\* decode has returned or thrown.
Finished == pc \in {"returned", "thrown"}

\* C30: decode finishes, by returning or by raising an error, for every text
\* and every combination of the options; the line cursor never moves
\* backwards, and every turn of the loops of parseReferences, parseValue, the
\* row reader (the lenient blank row turn included) and the column reader
\* advances the cursor or leaves its loop.
DecodeTerminates ==
  /\ <>Finished
  /\ [][/\ context'.currentLine >= context.currentLine
        /\ \/ context'.currentLine > context.currentLine
           \/ Len(stack') < Len(stack)]_vars

\* C30, the case reached: a lenient decode has skipped the blank row of the
\* table a@2|k,m: and returned with every one of the five lines read.
BlankRowSkippedAndReturned ==
  /\ mode = "turns"
  /\ pc = "returned"
  /\ ~dopts.strict
  /\ doc.kind = "lines"
  /\ Len(context.lines) = 5
  /\ context.lines[1] = <<"a", "@", "2", "|", "k", ",", "m", ":">>
  /\ context.lines[3] = <<>>
  /\ context.currentLine = 5
====
